---- MODULE Spec2Model ----
(***************************************************************************)
(* Model of the site-clustering part of src/ligysis.py: the relative       *)
(* intersection matrix (get_intersect_rel_matrix / intersection_rel), the  *)
(* clustering section of __main__ (scipy linkage + cut_tree by height) and *)
(* the membership utilities (get_cluster_membership, get_all_cluster_ress, *)
(* get_residue_bs_membership).                                             *)
(*                                                                         *)
(* Python values are modelled as follows.                                  *)
(*   list            a sequence                                            *)
(*   dict            a sequence of <<key, value>> pairs in insertion order *)
(*   float I/I_max   the rational <<n, d>> in lowest terms (d > 0); every  *)
(*                   float of the model is a quotient of small integers,   *)
(*                   so equal rationals are equal floats                   *)
(*   raise           a record [exc |-> name] instead of a value            *)
(***************************************************************************)
EXTENDS Integers, Sequences, FiniteSets, TLC

\* ------------------------------------------------------------------ bounds
\* residue positions are 1..MaxRes where the similarity matrix is taken on
\* its own (SpecSim)
MaxRes == 3
\* residue positions are 1..MaxSiteRes in the pass through the segment loop
\* body (Spec)
MaxSiteRes == 2
\* at most MaxLigs ligands in lig_fps
MaxLigs == 3
\* cut heights are k/HeightDen, k in 0..HeightDen
HeightDen == 2

Residues == 1..MaxRes

\* ------------------------------------------------------------------ numbers
RECURSIVE GCD(_, _)
GCD(a, b) == IF b = 0 THEN a ELSE GCD(b, a % b)

\* the float n/d (d > 0, n >= 0) as a rational in lowest terms
Rat(n, d) == LET g == GCD(n, d) IN IF n = 0 THEN <<0, 1>> ELSE <<n \div g, d \div g>>

RatLess(a, b) == a[1] * b[2] < b[1] * a[2]
RatLeq(a, b) == a[1] * b[2] <= b[1] * a[2]
RatZero == <<0, 1>>
RatOne == <<1, 1>>
\* 1 - a
OneMinus(a) == Rat(a[2] - a[1], a[2])

Min2(a, b) == IF a <= b THEN a ELSE b

\* ------------------------------------------------------------------ lists
Range(s) == {s[i] : i \in 1..Len(s)}

\* sorted(list(S)) for a finite set of integers S
RECURSIVE SortedList(_)
SortedList(S) ==
    IF S = {} THEN <<>>
    ELSE LET m == CHOOSE x \in S : \A y \in S : x <= y
         IN <<m>> \o SortedList(S \ {m})

\* sorted(list(set(l)))
SortedSet(l) == SortedList(Range(l))

\* l[::-1]
Reverse(l) == [i \in 1..Len(l) |-> l[Len(l) + 1 - i]]

\* all lists over S of length lo..hi
SeqsBetween(S, lo, hi) == UNION {[1..n -> S] : n \in lo..hi}

\* ------------------------------------------------------------------ dicts
DictKeys(d) == [i \in 1..Len(d) |-> d[i][1]]
DictValues(d) == [i \in 1..Len(d) |-> d[i][2]]
DictHas(d, k) == \E i \in 1..Len(d) : d[i][1] = k
DictGet(d, k) == d[CHOOSE i \in 1..Len(d) : d[i][1] = k][2]
\* d[k] = v
DictPut(d, k, v) ==
    IF DictHas(d, k)
    THEN [i \in 1..Len(d) |-> IF d[i][1] = k THEN <<k, v>> ELSE d[i]]
    ELSE Append(d, <<k, v>>)

\* ------------------------------------------------------------------ similarity
\* mutant of intersection_rel: the Jaccard ratio I / |l1 u l2|
intersection_rel_jaccard(l1, l2) ==
    LET U == Cardinality(Range(l1) \cup Range(l2))
        I == Cardinality({x \in Range(l1) : x \in Range(l2)})
    IN IF Min2(Len(l1), Len(l2)) = 0 THEN [exc |-> "ZeroDivisionError"]
       ELSE [exc |-> "none", val |-> Rat(I, U)]

\* mutant of intersection_rel: divides by the size of the larger list
intersection_rel_max(l1, l2) ==
    LET len1 == Len(l1)
        len2 == Len(l2)
        I_max == IF len1 >= len2 THEN len1 ELSE len2
        I == Cardinality({x \in Range(l1) : x \in Range(l2)})
    IN IF Min2(len1, len2) = 0 THEN [exc |-> "ZeroDivisionError"]
       ELSE [exc |-> "none", val |-> Rat(I, I_max)]

\* mutant of intersection_rel: an empty list scores 0.0 instead of raising
intersection_rel_guarded(l1, l2) ==
    LET I_max == Min2(Len(l1), Len(l2))
        I == Cardinality({x \in Range(l1) : x \in Range(l2)})
    IN IF I_max = 0 THEN [exc |-> "none", val |-> RatZero]
       ELSE [exc |-> "none", val |-> Rat(I, I_max)]

\* intersection_rel(l1, l2): I / I_max, ZeroDivisionError when I_max = 0
intersection_rel(l1, l2) ==
    LET len1 == Len(l1)
        len2 == Len(l2)
        I_max == Min2(len1, len2)
        I == Cardinality({x \in Range(l1) : x \in Range(l2)})
    IN IF I_max = 0 THEN [exc |-> "ZeroDivisionError"]
       ELSE [exc |-> "none", val |-> Rat(I, I_max)]

Raised(r) == r.exc # "none"

\* mutant of irel_row: inters[j][i] is not filled in
RECURSIVE irel_row_nomirror(_, _, _, _)
irel_row_nomirror(binding_ress, inters, i, j) ==
    IF j >= Len(binding_ress) THEN [exc |-> "none", val |-> inters]
    ELSE LET r == intersection_rel(binding_ress[i + 1], binding_ress[j + 1])
         IN IF Raised(r) THEN r
            ELSE irel_row_nomirror(binding_ress,
                                   [inters EXCEPT ![i] = (j :> r.val) @@ @],
                                   i, j + 1)

\* inner loop of get_intersect_rel_matrix: for j in range(i+1, N)
RECURSIVE irel_row(_, _, _, _)
irel_row(binding_ress, inters, i, j) ==
    IF j >= Len(binding_ress) THEN [exc |-> "none", val |-> inters]
    ELSE LET r == intersection_rel(binding_ress[i + 1], binding_ress[j + 1])
         IN IF Raised(r) THEN r
            ELSE irel_row(binding_ress,
                          [inters EXCEPT ![i] = (j :> r.val) @@ @,
                                         ![j] = (i :> r.val) @@ @],
                          i, j + 1)

\* outer loop: for i in range(N)
RECURSIVE irel_rows(_, _, _)
irel_rows(binding_ress, inters, i) ==
    IF i >= Len(binding_ress) THEN [exc |-> "none", val |-> inters]
    ELSE LET r == intersection_rel(binding_ress[i + 1], binding_ress[i + 1])
         IN IF Raised(r) THEN r
            ELSE LET row == irel_row(binding_ress,
                                     [inters EXCEPT ![i] = (i :> r.val) @@ @],
                                     i, i + 1)
                 IN IF Raised(row) THEN row
                    ELSE irel_rows(binding_ress, row.val, i + 1)

\* get_intersect_rel_matrix(binding_ress): {i: {j: sim}} with 0-based indices
get_intersect_rel_matrix(binding_ress) ==
    irel_rows(binding_ress, [i \in 0..(Len(binding_ress) - 1) |-> <<>>], 0)

\* ------------------------------------------------------------------ clustering
\* scipy.cluster.hierarchy is a library: linkage() and cut_tree() are modelled
\* from its algorithms (nn_chain for "average" and "complete",
\* mst_single_linkage for "single", the stable sort by height, label(), and
\* cut_tree's searchsorted / regrouping loop).

\* condensed_index(n, i, j): the entry of the condensed distance matrix
Cidx(i, j) == IF i < j THEN <<i, j>> ELSE <<j, i>>

\* mutant of condensed_dist_mat: the similarity is clustered as if it were
\* the distance
condensed_sim_mat(irel, n) ==
    [p \in {q \in (0..(n - 1)) \X (0..(n - 1)) : q[1] < q[2]} |-> irel[p[1]][p[2]]]

\* dist_df = 1 - irel_df; squareform(dist_df): the entries above the diagonal
condensed_dist_mat(irel, n) ==
    [p \in {q \in (0..(n - 1)) \X (0..(n - 1)) : q[1] < q[2]} |->
        OneMinus(irel[p[1]][p[2]])]

\* the Lance-Williams update of the distance from cluster i to the merge of
\* x and y (d_xi, d_yi the old distances, nx, ny the sizes)
new_dist(method, d_xi, d_yi, nx, ny) ==
    IF method = "average"
    THEN Rat(nx * d_xi[1] * d_yi[2] + ny * d_yi[1] * d_xi[2],
             (nx + ny) * d_xi[2] * d_yi[2])
    ELSE \* "complete"
         IF RatLess(d_xi, d_yi) THEN d_yi ELSE d_xi

\* for i in range(n): the nearest active neighbour of x, the first one among
\* equals, the previous chain element being preferred (best.has = FALSE
\* stands for current_min = infinity)
RECURSIVE nn_scan(_, _, _, _, _, _)
nn_scan(D, size, n, x, i, best) ==
    IF i >= n THEN best
    ELSE IF size[i] = 0 \/ x = i THEN nn_scan(D, size, n, x, i + 1, best)
    ELSE LET dist == D[Cidx(x, i)]
         IN IF ~best.has \/ RatLess(dist, best.min)
            THEN nn_scan(D, size, n, x, i + 1, [y |-> i, min |-> dist, has |-> TRUE])
            ELSE nn_scan(D, size, n, x, i + 1, best)

\* while True: follow nearest neighbours until two clusters are mutual
\* nearest neighbours
RECURSIVE nn_grow(_, _, _, _)
nn_grow(D, size, n, chain) ==
    LET L == Len(chain)
        x == chain[L]
        start == IF L > 1
                 THEN [y |-> chain[L - 1], min |-> D[Cidx(x, chain[L - 1])], has |-> TRUE]
                 ELSE [y |-> -1, min |-> RatZero, has |-> FALSE]
        b == nn_scan(D, size, n, x, 0, start)
    IN IF L > 1 /\ b.y = chain[L - 1]
       THEN [chain |-> chain, x |-> x, y |-> b.y, min |-> b.min]
       ELSE nn_grow(D, size, n, Append(chain, b.y))

\* for k in range(n - 1): one merge per iteration; Z collects the rows
\* <<x, y, height, size>>
RECURSIVE nn_chain_loop(_, _, _, _, _, _, _)
nn_chain_loop(D, size, n, chain, Z, k, method) ==
    IF k >= n - 1 THEN Z
    ELSE LET chain0 == IF chain = <<>>
                       THEN <<CHOOSE i \in 0..(n - 1) :
                                 size[i] > 0 /\ \A j \in 0..(i - 1) : size[j] = 0>>
                       ELSE chain
             g == nn_grow(D, size, n, chain0)
             rest == SubSeq(g.chain, 1, Len(g.chain) - 2)
             x == IF g.x > g.y THEN g.y ELSE g.x
             y == IF g.x > g.y THEN g.x ELSE g.y
             nx == size[x]
             ny == size[y]
             size1 == [size EXCEPT ![x] = 0, ![y] = nx + ny]
             D1 == [p \in DOMAIN D |->
                      IF \E i \in 0..(n - 1) : size1[i] # 0 /\ i # y /\ p = Cidx(i, y)
                      THEN LET i == IF p[1] = y THEN p[2] ELSE p[1]
                           IN new_dist(method, D[Cidx(i, x)], D[Cidx(i, y)], nx, ny)
                      ELSE D[p]]
         IN nn_chain_loop(D1, size1, n, rest,
                          Append(Z, <<x, y, g.min, nx + ny>>), k + 1, method)

nn_chain(dists, n, method) ==
    nn_chain_loop(dists, [i \in 0..(n - 1) |-> 1], n, <<>>, <<>>, 0, method)

\* mst_single_linkage, the algorithm of method "single": Prim's minimum
\* spanning tree from observation 0. D[i] is the distance from the tree to
\* i (has = FALSE stands for infinity); the next observation y is the first
\* one at the least distance. The rows are <<x, y, height, 0>>: label sets
\* the sizes.
mst_nearest(D, dists, merged, n, x) ==
    LET D1 == [i \in 0..(n - 1) |->
                 IF i \in merged THEN D[i]
                 ELSE LET dist == dists[Cidx(x, i)]
                      IN IF ~D[i].has \/ RatLess(dist, D[i].min)
                         THEN [min |-> dist, has |-> TRUE]
                         ELSE D[i]]
        free == (0..(n - 1)) \ merged
        y == CHOOSE i \in free :
                 \A j \in free : /\ RatLeq(D1[i].min, D1[j].min)
                                 /\ j < i => RatLess(D1[i].min, D1[j].min)
    IN [D |-> D1, y |-> y, min |-> D1[y].min]

RECURSIVE mst_loop(_, _, _, _, _, _, _)
mst_loop(D, dists, merged, n, x, Z, k) ==
    IF k >= n - 1 THEN Z
    ELSE LET merged1 == merged \cup {x}
             s == mst_nearest(D, dists, merged1, n, x)
         IN mst_loop(s.D, dists, merged1, n, s.y, Append(Z, <<x, s.y, s.min, 0>>), k + 1)

mst_single_linkage(dists, n) ==
    mst_loop([i \in 0..(n - 1) |-> [min |-> RatZero, has |-> FALSE]], dists, {}, n, 0,
             <<>>, 0)

\* np.argsort(Z[:, 2], kind = 'mergesort'): stable sort of the rows by height
RECURSIVE InsertRow(_, _)
InsertRow(sorted, row) ==
    IF sorted = <<>> THEN <<row>>
    ELSE IF RatLess(row[3], sorted[Len(sorted)][3])
         THEN Append(InsertRow(SubSeq(sorted, 1, Len(sorted) - 1), row),
                     sorted[Len(sorted)])
         ELSE Append(sorted, row)

RECURSIVE SortRows(_, _)
SortRows(Z, k) == IF k = 0 THEN <<>> ELSE InsertRow(SortRows(Z, k - 1), Z[k])

\* label(Z, n): rows name clusters, leaf i is cluster i and row k (0-based)
\* makes cluster n + k; cid maps each leaf to the cluster it is in
RECURSIVE label_loop(_, _, _, _, _)
label_loop(Z, n, cid, k, out) ==
    IF k > Len(Z) THEN out
    ELSE LET x_root == cid[Z[k][1]]
             y_root == cid[Z[k][2]]
             lo == IF x_root < y_root THEN x_root ELSE y_root
             hi == IF x_root < y_root THEN y_root ELSE x_root
             new == n + k - 1
             cid1 == [i \in DOMAIN cid |->
                        IF cid[i] = x_root \/ cid[i] = y_root THEN new ELSE cid[i]]
             size == Cardinality({i \in DOMAIN cid1 : cid1[i] = new})
         IN label_loop(Z, n, cid1, k + 1, Append(out, <<lo, hi, Z[k][3], size>>))

label(Z, n) == label_loop(Z, n, [i \in 0..(n - 1) |-> i], 1, <<>>)

\* scipy.cluster.hierarchy.linkage(condensed_dist_mat, method, optimal_ordering = True);
\* optimal_ordering only swaps the two children of a row
linkage(dists, n, method) ==
    LET Z == IF method = "single" THEN mst_single_linkage(dists, n)
             ELSE nn_chain(dists, n, method)
    IN label(SortRows(Z, Len(Z)), n)

\* node.pre_order(): the leaves under cluster c of the linkage Z
RECURSIVE pre_order(_, _, _)
pre_order(Z, n, c) ==
    IF c < n THEN {c}
    ELSE pre_order(Z, n, Z[c - n + 1][1]) \cup pre_order(Z, n, Z[c - n + 1][2])

SetMin(S) == CHOOSE x \in S : \A y \in S : x <= y
SetMax(S) == CHOOSE x \in S : \A y \in S : x >= y

\* mutant of searchsorted: the number of heights strictly above height
searchsorted_above(Z, height) == Cardinality({k \in 1..Len(Z) : RatLess(height, Z[k][3])})

\* np.searchsorted(heights, height): the number of heights strictly below height
searchsorted(Z, height) == Cardinality({k \in 1..Len(Z) : RatLess(Z[k][3], height)})

\* mutant of cut_loop: the ids above the merged group are not shifted down
RECURSIVE cut_loop_gaps(_, _, _, _, _)
cut_loop_gaps(Z, n, last_group, i, cols_idx) ==
    IF i > cols_idx THEN last_group
    ELSE LET idx == pre_order(Z, n, n + i - 1)
             gmin == SetMin({last_group[l] : l \in idx})
             merged == [l \in DOMAIN last_group |->
                          IF l \in idx THEN gmin ELSE last_group[l]]
         IN cut_loop_gaps(Z, n, merged, i + 1, cols_idx)

\* the regrouping loop of cut_tree over the first cols_idx nodes (the nodes in
\* height order; among nodes of equal height children come before parents)
RECURSIVE cut_loop(_, _, _, _, _)
cut_loop(Z, n, last_group, i, cols_idx) ==
    IF i > cols_idx THEN last_group
    ELSE LET idx == pre_order(Z, n, n + i - 1)
             gmin == SetMin({last_group[l] : l \in idx})
             gmax == SetMax({last_group[l] : l \in idx})
             merged == [l \in DOMAIN last_group |->
                          IF l \in idx THEN gmin ELSE last_group[l]]
             this_group == [l \in DOMAIN merged |->
                              IF merged[l] > gmax THEN merged[l] - 1 ELSE merged[l]]
         IN cut_loop(Z, n, this_group, i + 1, cols_idx)

\* scipy.cluster.hierarchy.cut_tree(linkage, height = h), flattened by
\* [int(cut) for cut in cut_tree]: the list of cluster ids
cut_tree(Z, n, height) ==
    LET g == cut_loop(Z, n, [l \in 0..(n - 1) |-> l], 1, searchsorted(Z, height))
    IN [i \in 1..n |-> g[i - 1]]

\* ------------------------------------------------------------------ membership
\* get_labs(fingerprints_dict), get_inters(fingerprints_dict)
get_labs(fingerprints_dict) == DictKeys(fingerprints_dict)
get_inters(fingerprints_dict) == DictValues(fingerprints_dict)

\* mutant of membership_loop: membership_dict[v] = [k] replaces the list
RECURSIVE membership_loop_overwrite(_, _, _)
membership_loop_overwrite(cluster_id_dict, membership_dict, i) ==
    IF i > Len(cluster_id_dict) THEN membership_dict
    ELSE membership_loop_overwrite(
             cluster_id_dict,
             DictPut(membership_dict, cluster_id_dict[i][2], <<cluster_id_dict[i][1]>>),
             i + 1)

\* get_cluster_membership(cluster_id_dict): for k, v in items(): create
\* membership_dict[v] = [] when v is new, then append k
RECURSIVE membership_loop(_, _, _)
membership_loop(cluster_id_dict, membership_dict, i) ==
    IF i > Len(cluster_id_dict) THEN membership_dict
    ELSE LET k == cluster_id_dict[i][1]
             v == cluster_id_dict[i][2]
             d0 == IF ~DictHas(membership_dict, v)
                   THEN DictPut(membership_dict, v, <<>>)
                   ELSE membership_dict
             d1 == DictPut(d0, v, Append(DictGet(d0, v), k))
         IN membership_loop(cluster_id_dict, d1, i + 1)

get_cluster_membership(cluster_id_dict) == membership_loop(cluster_id_dict, <<>>, 1)

\* for v1 in v: binding_site_res_dict[k].extend(fingerprints_dict[v1])
RECURSIVE extend_all(_, _, _, _)
extend_all(acc, v, fingerprints_dict, j) ==
    IF j > Len(v) THEN acc
    ELSE extend_all(acc \o DictGet(fingerprints_dict, v[j]), v, fingerprints_dict, j + 1)

\* get_all_cluster_ress(membership_dict, fingerprints_dict)
RECURSIVE cluster_ress_loop(_, _, _, _)
cluster_ress_loop(membership_dict, fingerprints_dict, binding_site_res_dict, i) ==
    IF i > Len(membership_dict) THEN binding_site_res_dict
    ELSE LET k == membership_dict[i][1]
             v == membership_dict[i][2]
             d0 == IF ~DictHas(binding_site_res_dict, k)
                   THEN DictPut(binding_site_res_dict, k, <<>>)
                   ELSE binding_site_res_dict
             d1 == DictPut(d0, k, extend_all(DictGet(d0, k), v, fingerprints_dict, 1))
         IN cluster_ress_loop(membership_dict, fingerprints_dict, d1, i + 1)

\* mutant of get_all_cluster_ress: the extended lists are returned as they are
get_all_cluster_ress_raw(membership_dict, fingerprints_dict) ==
    cluster_ress_loop(membership_dict, fingerprints_dict, <<>>, 1)

get_all_cluster_ress(membership_dict, fingerprints_dict) ==
    LET d == cluster_ress_loop(membership_dict, fingerprints_dict, <<>>, 1)
    IN [i \in 1..Len(d) |-> <<d[i][1], SortedSet(d[i][2])>>]

\* mutant of sites_of: the scan stops at the first site that holds bs_res
RECURSIVE sites_of_first(_, _, _, _)
sites_of_first(cluster_ress, bs_res, acc, i) ==
    IF i > Len(cluster_ress) THEN acc
    ELSE IF bs_res \in Range(cluster_ress[i][2])
         THEN Append(acc, cluster_ress[i][1])
         ELSE sites_of_first(cluster_ress, bs_res, acc, i + 1)

\* for k, v in cluster_ress.items(): if bs_res in v: append k
RECURSIVE sites_of(_, _, _, _)
sites_of(cluster_ress, bs_res, acc, i) ==
    IF i > Len(cluster_ress) THEN acc
    ELSE sites_of(cluster_ress, bs_res,
                  IF bs_res \in Range(cluster_ress[i][2])
                  THEN Append(acc, cluster_ress[i][1]) ELSE acc,
                  i + 1)

\* all_bs_ress.extend(v) for v in cluster_ress.values()
RECURSIVE concat_values(_, _)
concat_values(d, i) ==
    IF i > Len(d) THEN <<>> ELSE d[i][2] \o concat_values(d, i + 1)

\* get_residue_bs_membership(cluster_ress)
get_residue_bs_membership(cluster_ress) ==
    LET all_bs_ress == SortedSet(concat_values(cluster_ress, 1))
    IN [i \in 1..Len(all_bs_ress) |->
          <<all_bs_ress[i], sites_of(cluster_ress, all_bs_ress[i], <<>>, 1)>>]

\* ------------------------------------------------------------------ conservation
\* Scores and percentages are floats rounded to 2 decimals: they are kept as
\* integers, in hundredths (6.0 is 600). The reals are exact: the rounding of
\* a value is that of the real number the float stands for.

\* round(n / d) for d > 0, a tie going to the even neighbour
RoundDiv(n, d) ==
    LET q == n \div d
        r == n % d
    IN IF 2 * r < d THEN q
       ELSE IF 2 * r > d THEN q + 1
       ELSE IF q % 2 = 0 THEN q ELSE q + 1

aas_1l == <<"A", "R", "N", "D", "C", "Q", "E", "G", "H", "I",
            "L", "K", "M", "F", "P", "S", "T", "W", "Y", "V",
            "-">>

lower_case == <<"a", "b", "c", "d", "e", "f", "g", "h", "i", "j", "k", "l", "m",
                "n", "o", "p", "q", "r", "s", "t", "u", "v", "w", "x", "y", "z">>
upper_case == <<"A", "B", "C", "D", "E", "F", "G", "H", "I", "J", "K", "L", "M",
                "N", "O", "P", "Q", "R", "S", "T", "U", "V", "W", "X", "Y", "Z">>

\* mutant of upper: the symbol is compared as it is written
upper_asis(aa) == aa

\* aa.upper()
upper(aa) ==
    IF \E i \in 1..Len(lower_case) : lower_case[i] = aa
    THEN upper_case[CHOOSE i \in 1..Len(lower_case) : lower_case[i] = aa]
    ELSE aa

\* l.count(x)
count(l, x) == Cardinality({i \in 1..Len(l) : l[i] = x})

\* abs_freqs[a] after the loop over the column
abs_freq(column, a) == Cardinality({i \in 1..Len(column) : upper(column[i]) = a})

\* all_ns_aas = sum(non_standard_aas.values())
all_ns_aas(column) ==
    Cardinality({i \in 1..Len(column) : upper(column[i]) \notin Range(aas_1l)})

\* the dict returned for a column of gaps only: abs_freqs with abs_freqs["-"] = 1
gap_freqs ==
    [k \in 1..Len(aas_1l) |->
        <<aas_1l[k], IF aas_1l[k] = "-" THEN RatOne ELSE RatZero>>]

\* get_freqs: the first pass of the loop returns gap_freqs when every symbol
\* is a gap; otherwise v / (len(col) - all_ns_aas) for the 21 symbols
get_freqs(i_col, column) ==
    IF Len(column) > 0 /\ count(column, "-") = Len(column)
    THEN [exc |-> "none", val |-> gap_freqs]
    ELSE LET den == Len(column) - all_ns_aas(column)
         IN IF den = 0 THEN [exc |-> "ZeroDivisionError"]
            ELSE [exc |-> "none",
                  val |-> [k \in 1..Len(aas_1l) |->
                              <<aas_1l[k], Rat(abs_freq(column, aas_1l[k]), den)>>]]

\* Shannon's entropy S = -sum(f * log2(f)) is kept exactly as the rational
\* 2^(n * S): with the frequencies a_i / n over their common denominator n,
\* 2^(n * S) is the product of (n / a_i)^(a_i) over the non-zero a_i
LCM(a, b) == (a * b) \div GCD(a, b)

RECURSIVE common_den(_, _)
common_den(fs, i) == IF i > Len(fs) THEN 1 ELSE LCM(fs[i][2][2], common_den(fs, i + 1))

RECURSIVE IntPow(_, _)
IntPow(b, e) == IF e = 0 THEN 1 ELSE b * IntPow(b, e - 1)

\* the running product over freqs.values(), "if f != 0" skipping the zeros
RECURSIVE entropy_loop(_, _, _, _, _)
entropy_loop(fs, n, i, num, den) ==
    IF i > Len(fs) THEN <<num, den>>
    ELSE LET a == (fs[i][2][1] * n) \div fs[i][2][2]
         IN IF a # 0
            THEN entropy_loop(fs, n, i + 1, num * IntPow(n, a), den * IntPow(a, a))
            ELSE entropy_loop(fs, n, i + 1, num, den)

\* get_entropy: [pow |-> 2^(root * S), root |-> n]
get_entropy(fs) ==
    LET n == common_den(fs, 1)
        p == entropy_loop(fs, n, 1, 1, 1)
    IN [pow |-> Rat(p[1], p[2]), root |-> n]

\* S == 0
entropy_is_zero(S) == S.pow = RatOne

\* naturals beyond 32 bits: the digits in base BigBase, lowest first
BigBase == 10000

RECURSIVE BigOf(_)
BigOf(x) == IF x = 0 THEN <<>> ELSE <<x % BigBase>> \o BigOf(x \div BigBase)

RECURSIVE BigTimes(_, _, _, _)
BigTimes(a, m, i, carry) ==
    IF i > Len(a)
    THEN BigOf(carry)
    ELSE LET t == a[i] * m + carry
         IN <<t % BigBase>> \o BigTimes(a, m, i + 1, t \div BigBase)

\* a * m^e
RECURSIVE BigTimesPow(_, _, _)
BigTimesPow(a, m, e) ==
    IF e = 0 THEN a ELSE BigTimesPow(BigTimes(a, m, 1, 0), m, e - 1)

RECURSIVE BigLeqFrom(_, _, _)
BigLeqFrom(a, b, i) ==
    IF i = 0 THEN TRUE
    ELSE IF a[i] # b[i] THEN a[i] < b[i]
    ELSE BigLeqFrom(a, b, i - 1)

BigLeq(a, b) ==
    IF Len(a) # Len(b) THEN Len(a) < Len(b) ELSE BigLeqFrom(a, b, Len(a))

\* A root [pow |-> x^n, root |-> n] stands for the real x. Whether
\* k - 1/2 <= (m / 2) * x, that is (2k - 1)^n * den <= m^n * num
at_least(S, m, k) ==
    BigLeq(BigTimesPow(BigOf(S.pow[2]), 2 * k - 1, S.root),
           BigTimesPow(BigOf(S.pow[1]), m, S.root))

\* the largest k in lo..(hi - 1) with at_least(S, m, k), by bisection
RECURSIVE round_search(_, _, _, _)
round_search(S, m, lo, hi) ==
    IF hi - lo <= 1 THEN lo
    ELSE LET mid == (lo + hi) \div 2
         IN IF at_least(S, m, mid) THEN round_search(S, m, mid, hi)
            ELSE round_search(S, m, lo, mid)

\* round(c * x, 2) in hundredths, for x below xmax
round_scaled(S, c100, xmax) == round_search(S, 2 * c100, 0, c100 * xmax + 1)

\* mutant of round_shenkin: 2**S is not multiplied by 6
round_shenkin_unscaled(S) == round_scaled(S, 100, Len(aas_1l) + 1)

\* round((2**S)*6, 2), in hundredths; 2**S is at most the 21 of the uniform
\* distribution over the alphabet
round_shenkin(S) == round_scaled(S, 600, Len(aas_1l) + 1)

\* get_shenkin
get_shenkin(i_col, column) ==
    LET f == get_freqs(i_col, column)
    IN IF Raised(f) THEN f
       ELSE [exc |-> "none", val |-> round_shenkin(get_entropy(f.val))]

\* get_stats: occ, gaps, occ_pct, gaps_pct
get_stats(column) ==
    LET n_seqs == Len(column)
        gaps == count(column, "-")
        occ == n_seqs - gaps
    IN IF n_seqs = 0 THEN [exc |-> "ZeroDivisionError"]
       ELSE LET occ_pct == RoundDiv(10000 * occ, n_seqs)
            IN [exc |-> "none",
                val |-> [occ |-> occ, gaps |-> gaps, occ_pct |-> occ_pct,
                         gaps_pct |-> 10000 - occ_pct]]

\* A float that may be not-a-number or infinite: [k |-> "num", v |-> the
\* value in hundredths], NaN or Inf
Num(h) == [k |-> "num", v |-> h]
NaN == [k |-> "nan", v |-> 0]
Inf == [k |-> "inf", v |-> 0]

\* items of a list that satisfy a test, in order
RECURSIVE SelectRows(_, _, _)
SelectRows(rows, keep, i) ==
    IF i > Len(rows) THEN <<>>
    ELSE IF rows[i].col \in keep THEN <<rows[i]>> \o SelectRows(rows, keep, i + 1)
    ELSE SelectRows(rows, keep, i + 1)

\* round(100*(s - min_shenkin)/(max_shenkin - min_shenkin), 2) on a float
\* column: 0.0/0.0 is nan
rel_norm(s, min_shenkin, max_shenkin) ==
    IF max_shenkin = min_shenkin
    THEN NaN
    ELSE Num(RoundDiv(10000 * (s - min_shenkin), max_shenkin - min_shenkin))

\* round(100*(s - 6)/(120 - 6), 2)
abs_norm(s) == RoundDiv(100 * (s - 600), 120 - 6)

\* format_shenkin: the rows of the scored columns with the two normalised
\* scores; min() of an empty column raises
format_shenkin(shenkin_tab, scored_cols) ==
    LET filt == SelectRows(shenkin_tab, Range(scored_cols), 1)
        scores == {filt[i].shenkin : i \in 1..Len(filt)}
    IN IF filt = <<>> THEN [exc |-> "ValueError"]
       ELSE LET min_shenkin == SetMin(scores)
                max_shenkin == SetMax(scores)
            IN [exc |-> "none",
                val |-> [i \in 1..Len(filt) |->
                    [col |-> filt[i].col,
                     shenkin |-> filt[i].shenkin,
                     rel_norm_shenkin |-> rel_norm(filt[i].shenkin, min_shenkin, max_shenkin),
                     abs_norm_shenkin |-> abs_norm(filt[i].shenkin)]]]

\* ------------------------------------------------------------------ enrichment
\* The cells of the contingency table hold counts or counts plus 0.5: a cell
\* is kept doubled (3 stands for 1.5).

\* tot_occ = sum(df.occ)
RECURSIVE tot_occ(_, _)
tot_occ(df, i) == IF i > Len(df) THEN 0 ELSE df[i].occ + tot_occ(df, i + 1)

\* mutant of tot_vars: the columns without occupancy are left out of the pool
RECURSIVE tot_vars_occupied(_, _)
tot_vars_occupied(df, i) ==
    IF i > Len(df) THEN 0
    ELSE (IF df[i].occ = 0 THEN 0 ELSE df[i].variants) + tot_vars_occupied(df, i + 1)

\* tot_vars = sum(df[variant_col])
RECURSIVE tot_vars(_, _)
tot_vars(df, i) == IF i > Len(df) THEN 0 ELSE df[i].variants + tot_vars(df, i + 1)

\* the binomial coefficient
RECURSIVE Binom(_, _)
Binom(n, k) ==
    IF k < 0 \/ k > n THEN 0
    ELSE IF k = 0 THEN 1
    ELSE (Binom(n, k - 1) * (n - k + 1)) \div k

\* hypergeom.pmf(k, M, n1, n2) times Binom(M, n2)
hypergeom_num(k, M, n1, n2) == Binom(n1, k) * Binom(M - n1, n2 - k)

\* the sum of the terms that are not above the observed one, for k in lo..hi
RECURSIVE two_sided_sum(_, _, _, _, _, _)
two_sided_sum(k, hi, M, n1, n2, observed) ==
    IF k > hi THEN 0
    ELSE (IF hypergeom_num(k, M, n1, n2) <= observed
          THEN hypergeom_num(k, M, n1, n2) ELSE 0)
         + two_sided_sum(k + 1, hi, M, n1, n2, observed)

\* stats.fisher_exact(table), two-sided, its two results rounded to 2 decimals
\* as get_OR rounds them: the table is cast to int64, a zero
\* row or column sum gives (nan, 1.0), the odds ratio is the sample one and
\* the p-value sums the tables that are not more probable than the given one
fisher_exact(table) ==
    LET c == [r \in 1..2 |-> [k \in 1..2 |-> table[r][k] \div 2]]
        M == c[1][1] + c[1][2] + c[2][1] + c[2][2]
        n1 == c[1][1] + c[1][2]
        n2 == c[1][1] + c[2][1]
    IN IF n1 = 0 \/ n2 = 0 \/ c[2][1] + c[2][2] = 0 \/ c[1][2] + c[2][2] = 0
       THEN [oddsr |-> NaN, pval |-> Num(100)]
       ELSE [oddsr |-> IF c[2][1] > 0 /\ c[1][2] > 0
                       THEN Num(RoundDiv(100 * c[1][1] * c[2][2], c[2][1] * c[1][2]))
                       ELSE Inf,
             pval |-> Num(RoundDiv(
                 100 * two_sided_sum(0, Min2(n1, n2), M, n1, n2,
                                     hypergeom_num(c[1][1], M, n1, n2)),
                 Binom(M, n2)))]

\* sum(list(map((lambda x: 1/x), vals))), the cells being doubled
RECURSIVE inverse_sum(_, _)
inverse_sum(vals, i) ==
    IF i > Len(vals) THEN RatZero
    ELSE LET r == inverse_sum(vals, i + 1)
         IN Rat(2 * r[2] + r[1] * vals[i], vals[i] * r[2])

\* round(1.96*(math.sqrt(sum(1/x))), 2); 1/x of a numpy zero is inf
se_or(vals) ==
    IF \E i \in 1..Len(vals) : vals[i] = 0 THEN Inf
    ELSE Num(round_scaled([pow |-> inverse_sum(vals, 1), root |-> 2], 196, 3))

\* mutant of or_row: the column is tested whatever its occupancy
or_row_unguarded(df, i, pool_occ, pool_vars) ==
    LET i_occ == df[i].occ
        i_vars == df[i].variants
        rest_occ == pool_occ - i_occ
        rest_vars == pool_vars - i_vars
        h == IF i_vars = 0 THEN 1 ELSE 0
        table == <<<<2 * i_vars + h, 2 * rest_vars + h>>,
                   <<2 * i_occ + h, 2 * rest_occ + h>>>>
        f == fisher_exact(table)
    IN [col |-> df[i].col, occ |-> i_occ, variants |-> i_vars,
        rest_occ |-> rest_occ, rest_vars |-> rest_vars, table |-> table,
        oddsratio |-> f.oddsr, pvalue |-> f.pval,
        se_OR |-> se_or(<<table[1][1], table[1][2], table[2][1], table[2][2]>>)]

\* one pass of the loop of get_OR: the row with oddsratio, pvalue and se_OR
\* set (rounded to 2 decimals), and with the values of rest_occ, rest_vars
\* and the table handed to fisher_exact (none for a column without occupancy)
or_row(df, i, pool_occ, pool_vars) ==
    LET i_occ == df[i].occ
        i_vars == df[i].variants
        rest_occ == pool_occ - i_occ
        rest_vars == pool_vars - i_vars
    IN IF i_occ = 0
       THEN [col |-> df[i].col, occ |-> i_occ, variants |-> i_vars,
             rest_occ |-> rest_occ, rest_vars |-> rest_vars, table |-> <<>>,
             oddsratio |-> NaN, pvalue |-> NaN, se_OR |-> NaN]
       ELSE LET h == IF i_vars = 0 THEN 1 ELSE 0
                table == <<<<2 * i_vars + h, 2 * rest_vars + h>>,
                           <<2 * i_occ + h, 2 * rest_occ + h>>>>
                f == fisher_exact(table)
            IN [col |-> df[i].col, occ |-> i_occ, variants |-> i_vars,
                rest_occ |-> rest_occ, rest_vars |-> rest_vars, table |-> table,
                oddsratio |-> f.oddsr, pvalue |-> f.pval,
                se_OR |-> se_or(<<table[1][1], table[1][2], table[2][1], table[2][2]>>)]

\* get_OR: the table with the three statistics of every row
get_OR(df) ==
    [i \in 1..Len(df) |-> or_row(df, i, tot_occ(df, 1), tot_vars(df, 1))]

\* ------------------------------------------------------------------ classification
consvar_class_colours == <<"royalblue", "green", "grey", "firebrick", "orange">>

\* x < t and x > t on floats: every comparison with nan is False
float_lt(x, t) == x.k = "num" /\ x.v < t

\* mutant of float_gt: nan counts as greater than any threshold
float_gt_unordered(x, t) == x.k # "num" \/ x.v > t

float_gt(x, t) == x.k = "inf" \/ (x.k = "num" /\ x.v > t)

\* mutant of miss_class: the upper threshold is tested with >
miss_class_above(score, oddsratio, ts, mes) ==
    IF score <= ts[1] /\ float_lt(oddsratio, mes) THEN "CMD"
    ELSE IF score <= ts[1] /\ float_gt(oddsratio, mes) THEN "CME"
    ELSE IF score > ts[2] /\ float_lt(oddsratio, mes) THEN "UMD"
    ELSE IF score > ts[2] /\ float_gt(oddsratio, mes) THEN "UME"
    ELSE "None"

\* mutant of miss_class: the lower threshold is tested with <
miss_class_strict(score, oddsratio, ts, mes) ==
    IF score < ts[1] /\ float_lt(oddsratio, mes) THEN "CMD"
    ELSE IF score < ts[1] /\ float_gt(oddsratio, mes) THEN "CME"
    ELSE IF score >= ts[2] /\ float_lt(oddsratio, mes) THEN "UMD"
    ELSE IF score >= ts[2] /\ float_gt(oddsratio, mes) THEN "UME"
    ELSE "None"

\* the if / elif chain of add_miss_class
miss_class(score, oddsratio, ts, mes) ==
    IF score <= ts[1] /\ float_lt(oddsratio, mes) THEN "CMD"
    ELSE IF score <= ts[1] /\ float_gt(oddsratio, mes) THEN "CME"
    ELSE IF score >= ts[2] /\ float_lt(oddsratio, mes) THEN "UMD"
    ELSE IF score >= ts[2] /\ float_gt(oddsratio, mes) THEN "UME"
    ELSE "None"

\* df.miss_class.map(coloring)
coloring(class, colours) ==
    IF class = "CMD" THEN colours[1]
    ELSE IF class = "CME" THEN colours[2]
    ELSE IF class = "UMD" THEN colours[4]
    ELSE IF class = "UME" THEN colours[5]
    ELSE colours[3]

\* add_miss_class with cons_col = "abs_norm_shenkin": the rows with
\* miss_class and miss_color set
add_miss_class(df, ts, mes, colours) ==
    [i \in 1..Len(df) |->
        LET class == miss_class(df[i].abs_norm_shenkin, df[i].oddsratio, ts, mes)
        IN [col |-> df[i].col,
            abs_norm_shenkin |-> df[i].abs_norm_shenkin,
            oddsratio |-> df[i].oddsratio,
            miss_class |-> class,
            miss_color |-> coloring(class, colours)]]

\* ------------------------------------------------------------------ state
VARIABLES
    pc,                      \* position in the body of the segment loop
    status,                  \* the status lines printed: <<segment, code>>
    exc,                     \* the exception that left the try block, or "none"
    lig_clust_method,        \* config: linkage method
    lig_clust_dist,          \* config: cut height
    lig_fps,                 \* {ligand id: fingerprint}
    lig_sifted_inters,       \* the fingerprints, each sorted without duplicates
    lig_labs,                \* the ligand ids
    irel_matrix,             \* the similarity matrix
    linkage_calls,           \* calls of scipy linkage / cut_tree so far
    cluster_ids,             \* cluster id of each ligand, in lig_labs order
    cluster_id_dict,         \* {ligand id: cluster id}
    membership,              \* {cluster id: [ligand id]}
    cluster_ress,            \* {cluster id: [residue]}
    bs_ress_membership_dict, \* {residue: [cluster id]}
    segments,                \* the segment ids of the accession, ascending
    segment,                 \* the segment of the current pass of the loop
    col,                     \* an alignment column: the symbols aligned to it
    freqs,                   \* get_freqs of the column
    shenkin,                 \* get_shenkin of the column
    col_stats,               \* get_stats of the column
    shenkin_df,              \* the table of calculate_shenkin, one row per column
    prot_cols,               \* the scored columns
    shenkin_filt,            \* the table of format_shenkin
    missense_df,             \* the table get_OR and add_miss_class fill in
    cons_ts,                 \* config: [cons_t_l, cons_t_h]
    MES_t,                   \* config: missense enrichment score threshold
    override,                \* args.override
    override_variants,       \* args.override_variants
    disk,                    \* the files of the segment: {file: content}
    loaded,                  \* the files the run read instead of making them
    stage,                   \* the stage of the loop body the run is at
    bm_ids,                  \* get_fingerprints: the bound-molecule ids
    bm_ids_copy,             \* get_fingerprints: the work list
    trying_counter,          \* get_fingerprints: {bm_id: attempt number}
    bm_id_dfs,               \* get_fingerprints: the ids whose interactions were read
    attempt_log              \* the ids of the "Attempt #" debug lines, in order

\* the state of the clustering and membership sections, pc apart
site_vars == <<status, exc, lig_clust_method, lig_clust_dist, lig_fps,
               lig_sifted_inters, lig_labs, irel_matrix, linkage_calls, cluster_ids,
               cluster_id_dict, membership, cluster_ress, bs_ress_membership_dict>>

\* the segment loop
loop_vars == <<segments, segment>>

\* the state of the conservation and missense enrichment functions
cons_vars == <<col, freqs, shenkin, col_stats, shenkin_df, prot_cols, shenkin_filt,
               missense_df, cons_ts, MES_t>>

run_vars == <<override, override_variants, disk, loaded, stage>>

retry_vars == <<bm_ids, bm_ids_copy, trying_counter, bm_id_dfs, attempt_log>>

vars == <<pc, site_vars, loop_vars, cons_vars, run_vars, retry_vars>>

\* a first run on an empty results directory, without options
NoRuns ==
    /\ override = FALSE
    /\ override_variants = FALSE
    /\ disk = <<>>
    /\ loaded = {}
    /\ stage = 0

\* get_fingerprints is not running
NoRetry ==
    /\ bm_ids = <<>>
    /\ bm_ids_copy = <<>>
    /\ trying_counter = <<>>
    /\ bm_id_dfs = <<>>
    /\ attempt_log = <<>>

Methods == {"average", "complete", "single"}
Heights == {Rat(k, HeightDen) : k \in 0..HeightDen}

\* the fingerprints over the residues 1..r: lig_fp is a list of unique residue
\* numbers in the order of the contact table, here the descending one, so
\* that sorting it changes it
Fingerprints(r) == {Reverse(SortedList(S)) : S \in SUBSET (1..r)}

\* a dict {ligand id: fingerprint} with the ligand ids 1..n in insertion order
FpsDict(fps) == [i \in 1..Len(fps) |-> <<i, fps[i]>>]

Blank ==
    /\ status = <<>>
    /\ exc = "none"
    /\ lig_sifted_inters = <<>>
    /\ lig_labs = <<>>
    /\ irel_matrix = <<>>
    /\ linkage_calls = 0
    /\ cluster_ids = <<>>
    /\ cluster_id_dict = <<>>
    /\ membership = <<>>
    /\ cluster_ress = <<>>
    /\ bs_ress_membership_dict = <<>>

\* an accession of one segment
OneSegment ==
    /\ segments = <<1>>
    /\ segment = 1

\* no alignment column, table or threshold is in use
ConsBlank ==
    /\ col = <<>>
    /\ freqs = <<>>
    /\ shenkin = <<>>
    /\ col_stats = <<>>
    /\ shenkin_df = <<>>
    /\ prot_cols = <<>>
    /\ shenkin_filt = <<>>
    /\ missense_df = <<>>
    /\ cons_ts = <<>>
    /\ MES_t = <<>>

\* the segment loop body at the fingerprints check, for any fingerprints dict
Init ==
    /\ pc = "check_fps"
    /\ lig_clust_method \in Methods
    /\ lig_clust_dist \in Heights
    /\ \E fps \in SeqsBetween(Fingerprints(MaxSiteRes), 0, MaxLigs) :
          lig_fps = FpsDict(fps)
    /\ Blank
    /\ OneSegment
    /\ ConsBlank
    /\ NoRuns
    /\ NoRetry

\* ------------------------------------------------------------------ actions
\* The actions follow one pass of the segment loop body through the
\* clustering and membership sections, on a results directory without
\* artifacts of an earlier run (every "override or not os.path.isfile(...)"
\* test takes its first branch).

\* if lig_fps == {}: print status 6 and continue
SkipNoFingerprints ==
    /\ pc = "check_fps"
    /\ lig_fps = <<>>
    /\ pc' = "skipped"
    /\ status' = Append(status, <<segment, 6>>)
    /\ UNCHANGED <<exc, lig_clust_method, lig_clust_dist, lig_fps, lig_sifted_inters,
                   lig_labs, irel_matrix, linkage_calls, cluster_ids, cluster_id_dict,
                   membership, cluster_ress, bs_ress_membership_dict>>
    /\ UNCHANGED <<loop_vars, cons_vars>>
    /\ UNCHANGED <<run_vars, retry_vars>>

\* n_acc_chain_inters = sum([len(inters) for inters in lig_fps.values()])
RECURSIVE SumLen(_, _)
SumLen(d, i) == IF i > Len(d) THEN 0 ELSE Len(d[i][2]) + SumLen(d, i + 1)

\* if n_acc_chain_inters == 0: print status 7 and continue
SkipNoInteractions ==
    /\ pc = "check_fps"
    /\ lig_fps # <<>>
    /\ SumLen(lig_fps, 1) = 0
    /\ pc' = "skipped"
    /\ status' = Append(status, <<segment, 7>>)
    /\ UNCHANGED <<exc, lig_clust_method, lig_clust_dist, lig_fps, lig_sifted_inters,
                   lig_labs, irel_matrix, linkage_calls, cluster_ids, cluster_id_dict,
                   membership, cluster_ress, bs_ress_membership_dict>>
    /\ UNCHANGED <<loop_vars, cons_vars>>
    /\ UNCHANGED <<run_vars, retry_vars>>

\* lig_sifted_inters = [sorted(list(set(i))) for i in get_inters(lig_fps)]
sift(fingerprints_dict) ==
    LET inters == get_inters(fingerprints_dict)
    IN [i \in 1..Len(inters) |-> SortedSet(inters[i])]

\* lig_sifted_inters, lig_labs and n_ligs are set
SiftFingerprints ==
    /\ pc = "check_fps"
    /\ lig_fps # <<>>
    /\ SumLen(lig_fps, 1) # 0
    /\ lig_sifted_inters' = sift(lig_fps)
    /\ lig_labs' = get_labs(lig_fps)
    /\ pc' = "irel"
    /\ UNCHANGED <<status, exc, lig_clust_method, lig_clust_dist, lig_fps, irel_matrix,
                   linkage_calls, cluster_ids, cluster_id_dict, membership,
                   cluster_ress, bs_ress_membership_dict>>
    /\ UNCHANGED <<loop_vars, cons_vars>>
    /\ UNCHANGED <<run_vars, retry_vars>>

\* irel_matrix = get_intersect_rel_matrix(lig_sifted_inters); an exception
\* reaches the handler of the segment loop: print status 1 and re-raise
BuildMatrix ==
    /\ pc = "irel"
    /\ LET r == get_intersect_rel_matrix(lig_sifted_inters)
       IN IF Raised(r)
          THEN /\ pc' = "raised"
               /\ exc' = r.exc
               /\ status' = Append(status, <<segment, 1>>)
               /\ UNCHANGED irel_matrix
          ELSE /\ pc' = "cluster"
               /\ irel_matrix' = r.val
               /\ UNCHANGED <<exc, status>>
    /\ UNCHANGED <<lig_clust_method, lig_clust_dist, lig_fps, lig_sifted_inters,
                   lig_labs, linkage_calls, cluster_ids, cluster_id_dict, membership,
                   cluster_ress, bs_ress_membership_dict>>
    /\ UNCHANGED <<loop_vars, cons_vars>>
    /\ UNCHANGED <<run_vars, retry_vars>>

\* cluster_id_dict = {lig_labs[i]: cluster_ids[i] for i in range(len(lig_labs))}
RECURSIVE zip_dict(_, _, _, _)
zip_dict(labs, ids, d, i) ==
    IF i > Len(labs) THEN d
    ELSE zip_dict(labs, ids, DictPut(d, labs[i], ids[i]), i + 1)

\* mutant of single_cluster_ids: the sole ligand gets cluster 1
single_cluster_ids_one == <<1>>

\* cluster_ids = [0]
single_cluster_ids == <<0>>

\* if n_ligs == 1: cluster_ids = [0]
ClusterSingle ==
    /\ pc = "cluster"
    /\ Len(lig_labs) = 1
    /\ cluster_ids' = single_cluster_ids
    /\ cluster_id_dict' = zip_dict(lig_labs, single_cluster_ids, <<>>, 1)
    /\ pc' = "membership"
    /\ UNCHANGED <<status, exc, lig_clust_method, lig_clust_dist, lig_fps,
                   lig_sifted_inters, lig_labs, irel_matrix, linkage_calls,
                   membership, cluster_ress, bs_ress_membership_dict>>
    /\ UNCHANGED <<loop_vars, cons_vars>>
    /\ UNCHANGED <<run_vars, retry_vars>>

\* the else branch: distance matrix, linkage, cut_tree at lig_clust_dist
cluster_tree(irel, n, method, height) ==
    cut_tree(linkage(condensed_dist_mat(irel, n), n, method), n, height)

ClusterTree ==
    /\ pc = "cluster"
    /\ Len(lig_labs) # 1
    /\ LET ids == cluster_tree(irel_matrix, Len(lig_labs), lig_clust_method, lig_clust_dist)
       IN /\ cluster_ids' = ids
          /\ cluster_id_dict' = zip_dict(lig_labs, ids, <<>>, 1)
    /\ linkage_calls' = linkage_calls + 1
    /\ pc' = "membership"
    /\ UNCHANGED <<status, exc, lig_clust_method, lig_clust_dist, lig_fps,
                   lig_sifted_inters, lig_labs, irel_matrix, membership,
                   cluster_ress, bs_ress_membership_dict>>
    /\ UNCHANGED <<loop_vars, cons_vars>>
    /\ UNCHANGED <<run_vars, retry_vars>>

\* membership = get_cluster_membership(cluster_id_dict)
ComputeMembership ==
    /\ pc = "membership"
    /\ membership' = get_cluster_membership(cluster_id_dict)
    /\ pc' = "cluster_ress"
    /\ UNCHANGED <<status, exc, lig_clust_method, lig_clust_dist, lig_fps,
                   lig_sifted_inters, lig_labs, irel_matrix, linkage_calls,
                   cluster_ids, cluster_id_dict, cluster_ress, bs_ress_membership_dict>>
    /\ UNCHANGED <<loop_vars, cons_vars>>
    /\ UNCHANGED <<run_vars, retry_vars>>

\* cluster_ress = get_all_cluster_ress(membership, lig_fps_filt2_sifted)
ComputeClusterRess ==
    /\ pc = "cluster_ress"
    /\ cluster_ress' = get_all_cluster_ress(membership, lig_fps)
    /\ pc' = "ress_membership"
    /\ UNCHANGED <<status, exc, lig_clust_method, lig_clust_dist, lig_fps,
                   lig_sifted_inters, lig_labs, irel_matrix, linkage_calls,
                   cluster_ids, cluster_id_dict, membership, bs_ress_membership_dict>>
    /\ UNCHANGED <<loop_vars, cons_vars>>
    /\ UNCHANGED <<run_vars, retry_vars>>

\* bs_ress_membership_dict = get_residue_bs_membership(cluster_ress)
ComputeResidueMembership ==
    /\ pc = "ress_membership"
    /\ bs_ress_membership_dict' = get_residue_bs_membership(cluster_ress)
    /\ pc' = "indexed"
    /\ UNCHANGED <<status, exc, lig_clust_method, lig_clust_dist, lig_fps,
                   lig_sifted_inters, lig_labs, irel_matrix, linkage_calls,
                   cluster_ids, cluster_id_dict, membership, cluster_ress>>
    /\ UNCHANGED <<loop_vars, cons_vars>>
    /\ UNCHANGED <<run_vars, retry_vars>>

Next ==
    \/ SkipNoFingerprints
    \/ SkipNoInteractions
    \/ SiftFingerprints
    \/ BuildMatrix
    \/ ClusterSingle
    \/ ClusterTree
    \/ ComputeMembership
    \/ ComputeClusterRess
    \/ ComputeResidueMembership

Spec == Init /\ [][Next]_vars

\* ------------------------------------------------------------------ other specifications
\* SpecSim: get_intersect_rel_matrix called on any list of 1..MaxLigs
\* fingerprints, empty ones included (the function taken on its own, before
\* any filtering by its caller)
InitSim ==
    /\ pc = "irel"
    /\ lig_clust_method = "average"
    /\ lig_clust_dist = Rat(1, 2)
    /\ \E fps \in SeqsBetween(Fingerprints(MaxRes), 1, MaxLigs) : lig_fps = FpsDict(fps)
    /\ lig_sifted_inters = sift(lig_fps)
    /\ lig_labs = get_labs(lig_fps)
    /\ status = <<>>
    /\ exc = "none"
    /\ irel_matrix = <<>>
    /\ linkage_calls = 0
    /\ cluster_ids = <<>>
    /\ cluster_id_dict = <<>>
    /\ membership = <<>>
    /\ cluster_ress = <<>>
    /\ bs_ress_membership_dict = <<>>
    /\ OneSegment
    /\ ConsBlank
    /\ NoRuns
    /\ NoRetry

NextSim == BuildMatrix

SpecSim == InitSim /\ [][NextSim]_vars

\* SpecTies: the clustering section with average linkage cut at 0.5 on up to
\* TieLigs ligands whose fingerprints are two narrow footprints, [1] and [2],
\* or the broad one [2, 1] that contains both
TieLigs == 7

TieFingerprints == {<<1>>, <<2>>, <<2, 1>>}

InitTies ==
    /\ pc = "check_fps"
    /\ lig_clust_method = "average"
    /\ lig_clust_dist = Rat(1, 2)
    /\ \E fps \in SeqsBetween(TieFingerprints, 2, TieLigs) : lig_fps = FpsDict(fps)
    /\ Blank
    /\ OneSegment
    /\ ConsBlank
    /\ NoRuns
    /\ NoRetry

NextTies ==
    \/ SiftFingerprints
    \/ BuildMatrix
    \/ ClusterTree

SpecTies == InitTies /\ [][NextTies]_vars

\* SpecCons: get_shenkin and get_stats, as the loop of calculate_shenkin
\* calls them, on any column of 1..MaxSeqs symbols: residues in upper and
\* lower case, the gap and a symbol outside aas_1l
MaxSeqs == 3

Symbols == {"A", "a", "R", "-", "X"}

\* the clustering section is not in use
SiteBlank ==
    /\ lig_clust_method = "average"
    /\ lig_clust_dist = Rat(1, 2)
    /\ lig_fps = <<>>
    /\ Blank

InitCons ==
    /\ pc = "get_shenkin"
    /\ col \in SeqsBetween(Symbols, 1, MaxSeqs)
    /\ freqs = <<>>
    /\ shenkin = <<>>
    /\ col_stats = <<>>
    /\ shenkin_df = <<>>
    /\ prot_cols = <<>>
    /\ shenkin_filt = <<>>
    /\ missense_df = <<>>
    /\ cons_ts = <<>>
    /\ MES_t = <<>>
    /\ SiteBlank
    /\ OneSegment
    /\ NoRuns
    /\ NoRetry

\* scores.append(get_shenkin(k, v)); stats = (get_stats(v)); an exception
\* leaves calculate_shenkin
ScoreColumn ==
    /\ pc = "get_shenkin"
    /\ LET f == get_freqs(1, col)
           s == get_shenkin(1, col)
           st == get_stats(col)
       IN IF Raised(s)
          THEN /\ pc' = "raised"
               /\ exc' = s.exc
               /\ UNCHANGED <<freqs, shenkin, col_stats>>
          ELSE /\ pc' = "scored"
               /\ freqs' = f.val
               /\ shenkin' = s.val
               /\ col_stats' = st.val
               /\ UNCHANGED exc
    /\ UNCHANGED <<status, lig_clust_method, lig_clust_dist, lig_fps, lig_sifted_inters,
                   lig_labs, irel_matrix, linkage_calls, cluster_ids, cluster_id_dict,
                   membership, cluster_ress, bs_ress_membership_dict>>
    /\ UNCHANGED <<col, shenkin_df, prot_cols, shenkin_filt, missense_df, cons_ts, MES_t>>
    /\ UNCHANGED loop_vars
    /\ UNCHANGED <<run_vars, retry_vars>>

NextCons == ScoreColumn

SpecCons == InitCons /\ [][NextCons]_vars

\* SpecNorm: format_shenkin on any table of 1..MaxCols alignment columns and
\* any sorted list of scored column indices (get_target_prot_cols), the empty
\* list and an index past the last column included
MaxCols == 3

\* the columns whose scores fill the tables: 6.0, 11.34, 12.0 and 18.0
ScoreColumns == {<<"A", "A", "A">>, <<"A", "A", "R">>, <<"A", "R">>, <<"A", "R", "N">>}
ScoreSet == {get_shenkin(1, c).val : c \in ScoreColumns}

ShenkinTables ==
    UNION {{[i \in 1..n |-> [col |-> i, shenkin |-> f[i]]] : f \in [1..n -> ScoreSet]} :
           n \in 1..MaxCols}

InitNorm ==
    /\ pc = "format_shenkin"
    /\ shenkin_df \in ShenkinTables
    /\ \E S \in SUBSET (1..(Len(shenkin_df) + 1)) : prot_cols = SortedList(S)
    /\ col = <<>>
    /\ freqs = <<>>
    /\ shenkin = <<>>
    /\ col_stats = <<>>
    /\ shenkin_filt = <<>>
    /\ missense_df = <<>>
    /\ cons_ts = <<>>
    /\ MES_t = <<>>
    /\ SiteBlank
    /\ OneSegment
    /\ NoRuns
    /\ NoRetry

\* shenkin_filt = format_shenkin(shenkin, prot_cols, shenkin_filt_out)
FormatShenkin ==
    /\ pc = "format_shenkin"
    /\ LET r == format_shenkin(shenkin_df, prot_cols)
       IN IF Raised(r)
          THEN /\ pc' = "raised"
               /\ exc' = r.exc
               /\ UNCHANGED shenkin_filt
          ELSE /\ pc' = "formatted"
               /\ shenkin_filt' = r.val
               /\ UNCHANGED exc
    /\ UNCHANGED <<status, lig_clust_method, lig_clust_dist, lig_fps, lig_sifted_inters,
                   lig_labs, irel_matrix, linkage_calls, cluster_ids, cluster_id_dict,
                   membership, cluster_ress, bs_ress_membership_dict>>
    /\ UNCHANGED <<col, freqs, shenkin, col_stats, shenkin_df, prot_cols, missense_df,
                   cons_ts, MES_t>>
    /\ UNCHANGED loop_vars
    /\ UNCHANGED <<run_vars, retry_vars>>

NextNorm == FormatShenkin

SpecNorm == InitNorm /\ [][NextNorm]_vars

\* SpecOR: get_OR on any table of 1..MaxCols scored columns with occupancy
\* and variant counts in 0..MaxCount
MaxCount == 1

CountTables(n) ==
    {[i \in 1..n |-> [col |-> i, occ |-> o[i], variants |-> v[i]]] :
       o \in [1..n -> 0..MaxCount], v \in [1..n -> 0..MaxCount]}

InitOR ==
    /\ pc = "get_OR"
    /\ \E n \in 1..MaxCols : missense_df \in CountTables(n)
    /\ col = <<>>
    /\ freqs = <<>>
    /\ shenkin = <<>>
    /\ col_stats = <<>>
    /\ shenkin_df = <<>>
    /\ prot_cols = <<>>
    /\ shenkin_filt = <<>>
    /\ cons_ts = <<>>
    /\ MES_t = <<>>
    /\ SiteBlank
    /\ OneSegment
    /\ NoRuns
    /\ NoRetry

\* merged_or = get_OR(merged): the rows of the table are set in place
GetOR ==
    /\ pc = "get_OR"
    /\ missense_df' = get_OR(missense_df)
    /\ pc' = "or_done"
    /\ UNCHANGED site_vars
    /\ UNCHANGED <<col, freqs, shenkin, col_stats, shenkin_df, prot_cols, shenkin_filt,
                   cons_ts, MES_t>>
    /\ UNCHANGED loop_vars
    /\ UNCHANGED <<run_vars, retry_vars>>

NextOR == GetOR

SpecOR == InitOR /\ [][NextOR]_vars

\* SpecClass: add_miss_class on any table of 1..MaxClassRows columns, for any
\* thresholds of the configuration file (nothing orders cons_t_l and
\* cons_t_h); the scores and odds ratios lie below, at, between and above
\* the thresholds, not-a-number and infinity included
MaxClassRows == 1

ThresholdLevels == {2500, 5000, 7500}
ScoreLevels == {abs_norm(s) : s \in {600, 3450, 4020, 6300, 9150, 12000}}
ORLevels == {NaN, Inf, Num(0), Num(100), Num(150)}
MESLevels == {100, 150}

ClassTables ==
    UNION {{[i \in 1..n |-> [col |-> i, abs_norm_shenkin |-> sc[i], oddsratio |-> o[i]]] :
              sc \in [1..n -> ScoreLevels], o \in [1..n -> ORLevels]} :
           n \in 1..MaxClassRows}

InitClass ==
    /\ pc = "add_miss_class"
    /\ missense_df \in ClassTables
    /\ cons_ts \in {<<l, h>> : l \in ThresholdLevels, h \in ThresholdLevels}
    /\ MES_t \in MESLevels
    /\ col = <<>>
    /\ freqs = <<>>
    /\ shenkin = <<>>
    /\ col_stats = <<>>
    /\ shenkin_df = <<>>
    /\ prot_cols = <<>>
    /\ shenkin_filt = <<>>
    /\ SiteBlank
    /\ OneSegment
    /\ NoRuns
    /\ NoRetry

\* missense_variants_df = add_miss_class(missense_variants_df, miss_df_out,
\* cons_col = "abs_norm_shenkin"): the table is set in place
AddMissClass ==
    /\ pc = "add_miss_class"
    /\ missense_df' = add_miss_class(missense_df, cons_ts, MES_t, consvar_class_colours)
    /\ pc' = "classified"
    /\ UNCHANGED site_vars
    /\ UNCHANGED <<col, freqs, shenkin, col_stats, shenkin_df, prot_cols, shenkin_filt,
                   cons_ts, MES_t>>
    /\ UNCHANGED loop_vars
    /\ UNCHANGED <<run_vars, retry_vars>>

NextClass == AddMissClass

SpecClass == InitClass /\ [][NextClass]_vars

\* SpecLoop: the segment loop of __main__ over an accession of
\* 1..MaxSegments segments. The stages around the clustering and membership
\* sections depend on files, databases and external tools: they are taken
\* by their outcome (a status line and continue, an exception, or the next
\* stage), the fingerprints of a segment being any dict of up to MaxLoopLigs
\* ligands.
MaxSegments == 3
MaxLoopLigs == 2

LoopFingerprints == {<<>>, <<1>>, <<2, 1>>}

\* the status codes printed before a continue ahead of the fingerprints:
\* results available, no chains, no ligand-binding structures, method or
\* resolution missing, no structure of the required quality
EarlySkipCodes == {0, 18, 5, 3, 4}

\* the warnings of the variants section: no variants retrieved, no missense
\* variants, no human sequences
WarningCodes == {12, 13, 14}

InitLoop ==
    /\ pc = "segment_start"
    /\ \E n \in 1..MaxSegments : segments = [i \in 1..n |-> i]
    /\ segment = 1
    /\ lig_clust_method = "average"
    /\ lig_clust_dist = Rat(1, 2)
    /\ lig_fps = <<>>
    /\ Blank
    /\ ConsBlank
    /\ NoRuns
    /\ NoRetry

\* from the top of the loop body to the fingerprints: a status line and
\* continue, the failed assertion on the pdb ids (continue without a status
\* line), an exception, or the fingerprints of the segment
EarlyStages ==
    /\ pc = "segment_start"
    /\ \/ \E code \in EarlySkipCodes :
            /\ status' = Append(status, <<segment, code>>)
            /\ pc' = "skipped"
            /\ UNCHANGED <<exc, lig_fps>>
       \/ /\ pc' = "skipped"
          /\ UNCHANGED <<status, exc, lig_fps>>
       \/ /\ status' = Append(status, <<segment, 1>>)
          /\ exc' = "Exception"
          /\ pc' = "raised"
          /\ UNCHANGED lig_fps
       \/ \E fps \in SeqsBetween(LoopFingerprints, 0, MaxLoopLigs) :
            /\ lig_fps' = FpsDict(fps)
            /\ pc' = "check_fps"
            /\ UNCHANGED <<status, exc>>
    /\ UNCHANGED <<lig_clust_method, lig_clust_dist, lig_sifted_inters, lig_labs,
                   irel_matrix, linkage_calls, cluster_ids, cluster_id_dict,
                   membership, cluster_ress, bs_ress_membership_dict>>
    /\ UNCHANGED <<loop_vars, cons_vars>>
    /\ UNCHANGED <<run_vars, retry_vars>>

\* mutant of after_body: the loop goes on to the next segment
after_body_continue == "skipped"

\* where the program is after the end of the loop body: the break that
\* follows the try statement leaves the loop
after_body == "the_end"

\* from the residue membership to the end of the loop body: no sequence
\* found by jackhmmer (status 11 and continue), an exception (status 1 and
\* raise), or the end of the body, after at most one warning: status 0 and
\* break
RestOfBody ==
    /\ pc = "indexed"
    /\ \/ /\ status' = Append(status, <<segment, 11>>)
          /\ pc' = "skipped"
          /\ UNCHANGED exc
       \/ /\ status' = Append(status, <<segment, 1>>)
          /\ exc' = "Exception"
          /\ pc' = "raised"
       \/ /\ status' = Append(status, <<segment, 0>>)
          /\ pc' = after_body
          /\ UNCHANGED exc
       \/ \E w \in WarningCodes :
            /\ status' = Append(Append(status, <<segment, w>>), <<segment, 0>>)
            /\ pc' = after_body
            /\ UNCHANGED exc
    /\ UNCHANGED <<lig_clust_method, lig_clust_dist, lig_fps, lig_sifted_inters,
                   lig_labs, irel_matrix, linkage_calls, cluster_ids, cluster_id_dict,
                   membership, cluster_ress, bs_ress_membership_dict>>
    /\ UNCHANGED <<loop_vars, cons_vars>>
    /\ UNCHANGED <<run_vars, retry_vars>>

\* the position of the current segment in segments
segment_index == CHOOSE i \in 1..Len(segments) : segments[i] = segment

\* continue: the next segment of "for segment in segments", or the end of
\* the loop after the last one; the variables of the body are assigned again
\* before any use
NextSegment ==
    /\ pc = "skipped"
    /\ IF segment_index < Len(segments)
       THEN /\ segment' = segments[segment_index + 1]
            /\ pc' = "segment_start"
       ELSE /\ pc' = "the_end"
            /\ UNCHANGED segment
    /\ lig_fps' = <<>>
    /\ lig_sifted_inters' = <<>>
    /\ lig_labs' = <<>>
    /\ irel_matrix' = <<>>
    /\ linkage_calls' = 0
    /\ cluster_ids' = <<>>
    /\ cluster_id_dict' = <<>>
    /\ membership' = <<>>
    /\ cluster_ress' = <<>>
    /\ bs_ress_membership_dict' = <<>>
    /\ UNCHANGED <<status, exc, lig_clust_method, lig_clust_dist, segments, cons_vars>>
    /\ UNCHANGED <<run_vars, retry_vars>>

NextLoop ==
    \/ EarlyStages
    \/ Next
    \/ RestOfBody
    \/ NextSegment

SpecLoop == InitLoop /\ [][NextLoop]_vars

\* SpecRetry: the while loop of get_fingerprints over the bound molecules of
\* one structure. get_bound_mol_inters reads a file or a web service: a call
\* is taken by its outcome (a table with interactions, an empty table, an
\* HTTPError, any other exception).
MaxMols == 2
max_retry == 2

\* list.remove(x): the list without the first x
RECURSIVE remove(_, _)
remove(list, x) ==
    IF list = <<>> THEN <<>>
    ELSE IF Head(list) = x THEN Tail(list)
    ELSE <<Head(list)>> \o remove(Tail(list), x)

\* mutant of exceeded: one more attempt is allowed
exceeded_late(counter) == counter > max_retry + 1

\* if trying_counter[bm_id] > max_retry
exceeded(counter) == counter > max_retry

\* bm_ids = df_mols.index.tolist(), not empty; trying_counter = {bm_id: 1};
\* bm_ids_copy = copy.deepcopy(bm_ids)
InitRetry ==
    /\ pc = "retry_loop"
    /\ \E n \in 1..MaxMols :
          bm_ids \in {l \in [1..n -> 1..n] : \A i, j \in 1..n : l[i] = l[j] => i = j}
    /\ bm_ids_copy = bm_ids
    /\ trying_counter = [i \in 1..Len(bm_ids) |-> <<bm_ids[i], 1>>]
    /\ bm_id_dfs = <<>>
    /\ attempt_log = <<>>
    /\ col = <<>>
    /\ freqs = <<>>
    /\ shenkin = <<>>
    /\ col_stats = <<>>
    /\ shenkin_df = <<>>
    /\ prot_cols = <<>>
    /\ shenkin_filt = <<>>
    /\ missense_df = <<>>
    /\ cons_ts = <<>>
    /\ MES_t = <<>>
    /\ SiteBlank
    /\ OneSegment
    /\ NoRuns

\* bm_id = bm_ids_copy[0]
bm_id == bm_ids_copy[1]

\* the attempt counter is over max_retry: the id is removed without a call
GiveUp ==
    /\ pc = "retry_loop"
    /\ bm_ids_copy # <<>>
    /\ exceeded(DictGet(trying_counter, bm_id))
    /\ bm_ids_copy' = remove(bm_ids_copy, bm_id)
    /\ UNCHANGED <<pc, bm_ids, trying_counter, bm_id_dfs, attempt_log>>
    /\ UNCHANGED <<site_vars, loop_vars, cons_vars, run_vars>>

\* get_bound_mol_inters returns: the id is removed, and its table kept when
\* it is not empty
AttemptReturns ==
    /\ pc = "retry_loop"
    /\ bm_ids_copy # <<>>
    /\ ~exceeded(DictGet(trying_counter, bm_id))
    /\ attempt_log' = Append(attempt_log, bm_id)
    /\ bm_ids_copy' = remove(bm_ids_copy, bm_id)
    /\ \E empty \in BOOLEAN :
          bm_id_dfs' = IF empty THEN bm_id_dfs ELSE Append(bm_id_dfs, bm_id)
    /\ UNCHANGED <<pc, bm_ids, trying_counter>>
    /\ UNCHANGED <<site_vars, loop_vars, cons_vars, run_vars>>

\* except HTTPError: trying_counter[bm_id] += 1, the id stays first
AttemptHTTPError ==
    /\ pc = "retry_loop"
    /\ bm_ids_copy # <<>>
    /\ ~exceeded(DictGet(trying_counter, bm_id))
    /\ attempt_log' = Append(attempt_log, bm_id)
    /\ trying_counter' = DictPut(trying_counter, bm_id, DictGet(trying_counter, bm_id) + 1)
    /\ UNCHANGED <<pc, bm_ids, bm_ids_copy, bm_id_dfs>>
    /\ UNCHANGED <<site_vars, loop_vars, cons_vars, run_vars>>

\* get_bound_mol_inters raises another exception (a KeyError or ValueError
\* of its table handling): no handler in get_fingerprints, the exception
\* leaves the loop and the function
AttemptRaises ==
    /\ pc = "retry_loop"
    /\ bm_ids_copy # <<>>
    /\ ~exceeded(DictGet(trying_counter, bm_id))
    /\ attempt_log' = Append(attempt_log, bm_id)
    /\ exc' = "Exception"
    /\ pc' = "raised"
    /\ UNCHANGED <<status, lig_clust_method, lig_clust_dist, lig_fps, lig_sifted_inters,
                   lig_labs, irel_matrix, linkage_calls, cluster_ids, cluster_id_dict,
                   membership, cluster_ress, bs_ress_membership_dict>>
    /\ UNCHANGED <<bm_ids, bm_ids_copy, trying_counter, bm_id_dfs>>
    /\ UNCHANGED <<loop_vars, cons_vars, run_vars>>

\* while bm_ids_copy: the list is empty
EndRetry ==
    /\ pc = "retry_loop"
    /\ bm_ids_copy = <<>>
    /\ pc' = "retry_done"
    /\ UNCHANGED <<site_vars, loop_vars, cons_vars, run_vars, retry_vars>>

NextRetry ==
    \/ GiveUp
    \/ AttemptReturns
    \/ AttemptHTTPError
    \/ AttemptRaises
    \/ EndRetry

SpecRetry == InitRetry /\ [][NextRetry]_vars

\* the interpreter runs the loop on: a step that can be taken is taken
SpecRetryLive == SpecRetry /\ WF_vars(NextRetry)

\* SpecRuns: runs of the program, one after another, on the results
\* directory of one segment. A run goes through the stages of the loop body
\* in order; a stage makes its file or reads the one on disk; only the disk
\* passes from a run to the next, while the options and the configuration
\* are those of each run. The similarity matrix, the clustering and the
\* three membership files carry their content; the other files are present
\* or not, the alignment with its number of sequences.
MaxRunLigs == 2

\* fingerprints at distance 1/2 from each other, or equal
RunFingerprints == {<<2, 1>>, <<3, 2>>}

\* the stages in the order of the loop body. guard: the option that makes a
\* stage write its file again ("isfile": none, the file is read whenever it
\* exists; "always": the file is written in every run); inside: the stage in
\* whose making branch the stage lies
Stages ==
    <<[file |-> "experimental", guard |-> "override", inside |-> ""],
      [file |-> "exp_data_json", guard |-> "isfile", inside |-> "experimental"],
      [file |-> "fingerprints", guard |-> "override", inside |-> ""],
      [file |-> "irel_matrix", guard |-> "override", inside |-> ""],
      [file |-> "cluster", guard |-> "memory", inside |-> ""],
      [file |-> "trans_cif", guard |-> "isfile", inside |-> ""],
      [file |-> "membership", guard |-> "override", inside |-> ""],
      [file |-> "cluster_ress", guard |-> "override", inside |-> ""],
      [file |-> "bs_mm_dict", guard |-> "override", inside |-> ""],
      [file |-> "dssp", guard |-> "override", inside |-> ""],
      [file |-> "seq", guard |-> "override_variants", inside |-> ""],
      [file |-> "alignment", guard |-> "override_variants", inside |-> ""],
      [file |-> "shenkin", guard |-> "override_variants", inside |-> ""],
      [file |-> "variants", guard |-> "override_variants", inside |-> ""],
      [file |-> "missense", guard |-> "override", inside |-> ""],
      [file |-> "results_table", guard |-> "always", inside |-> ""]>>

\* the stages whose file carries its content
ContentFiles == {"irel_matrix", "cluster", "membership", "cluster_ress", "bs_mm_dict"}

CurStage == Stages[stage]

\* "override or not os.path.isfile(out)" and its variants
Regenerates(st) ==
    \/ st.guard = "always"
    \/ st.guard = "override" /\ override
    \/ st.guard = "override_variants" /\ override_variants
    \/ ~DictHas(disk, st.file)

\* a stage inside the making branch of a stage that read its file is not
\* reached
Unreached(st) == st.inside # "" /\ st.inside \in loaded

InitRuns ==
    /\ pc = "run_start"
    /\ override \in BOOLEAN
    /\ override_variants \in BOOLEAN
    /\ disk = <<>>
    /\ loaded = {}
    /\ stage = 0
    /\ lig_clust_method = "average"
    /\ lig_clust_dist \in Heights
    /\ \E fps \in SeqsBetween(RunFingerprints, 1, MaxRunLigs) : lig_fps = FpsDict(fps)
    /\ Blank
    /\ OneSegment
    /\ ConsBlank
    /\ NoRetry

\* if os.path.isfile(final_table_out) and not override: status 0, continue
RunStart ==
    /\ pc = "run_start"
    /\ IF DictHas(disk, "results_table") /\ ~override
       THEN /\ status' = Append(status, <<segment, 0>>)
            /\ pc' = "run_end"
            /\ UNCHANGED stage
       ELSE /\ pc' = "stages"
            /\ stage' = 1
            /\ UNCHANGED status
    /\ UNCHANGED <<exc, lig_clust_method, lig_clust_dist, lig_fps, lig_sifted_inters,
                   lig_labs, irel_matrix, linkage_calls, cluster_ids, cluster_id_dict,
                   membership, cluster_ress, bs_ress_membership_dict>>
    /\ UNCHANGED <<override, override_variants, disk, loaded>>
    /\ UNCHANGED <<loop_vars, cons_vars, retry_vars>>

\* a stage without modelled content: the file is made, or the one on disk is
\* read; the alignment is made with one sequence (no hit) or more; the
\* results table ends the body: status 0
PlainStage ==
    /\ pc = "stages"
    /\ CurStage.file \notin ContentFiles
    /\ IF Unreached(CurStage) THEN UNCHANGED <<disk, loaded>>
       ELSE IF Regenerates(CurStage)
       THEN /\ \E n_seqs \in IF CurStage.file = "alignment" THEN {1, 2} ELSE {0} :
                  disk' = DictPut(disk, CurStage.file, n_seqs)
            /\ UNCHANGED loaded
       ELSE /\ loaded' = loaded \cup {CurStage.file}
            /\ UNCHANGED disk
    /\ IF CurStage.file = "results_table"
       THEN /\ status' = Append(status, <<segment, 0>>)
            /\ pc' = "run_end"
            /\ UNCHANGED stage
       ELSE IF CurStage.file = "alignment" /\ DictGet(disk', "alignment") = 1
       THEN /\ status' = Append(status, <<segment, 11>>)
            /\ pc' = "run_end"
            /\ UNCHANGED stage
       ELSE /\ stage' = stage + 1
            /\ UNCHANGED <<pc, status>>
    /\ UNCHANGED <<exc, lig_clust_method, lig_clust_dist, lig_fps, lig_sifted_inters,
                   lig_labs, irel_matrix, linkage_calls, cluster_ids, cluster_id_dict,
                   membership, cluster_ress, bs_ress_membership_dict>>
    /\ UNCHANGED <<override, override_variants>>
    /\ UNCHANGED <<loop_vars, cons_vars, retry_vars>>

\* the making of a file fails (a web service, an external tool): the handler
\* of the loop prints status 1 and re-raises
StageRaises ==
    /\ pc = "stages"
    /\ CurStage.file \notin ContentFiles
    /\ CurStage.guard # "always"
    /\ ~Unreached(CurStage)
    /\ Regenerates(CurStage)
    /\ status' = Append(status, <<segment, 1>>)
    /\ exc' = "Exception"
    /\ pc' = "raised"
    /\ UNCHANGED <<lig_clust_method, lig_clust_dist, lig_fps, lig_sifted_inters,
                   lig_labs, irel_matrix, linkage_calls, cluster_ids, cluster_id_dict,
                   membership, cluster_ress, bs_ress_membership_dict>>
    /\ UNCHANGED <<loop_vars, cons_vars, run_vars, retry_vars>>

\* lig_sifted_inters, lig_labs, then the similarity matrix, calculated and
\* dumped or loaded
MatrixStage ==
    /\ pc = "stages"
    /\ CurStage.file = "irel_matrix"
    /\ lig_sifted_inters' = sift(lig_fps)
    /\ lig_labs' = get_labs(lig_fps)
    /\ IF Regenerates(CurStage)
       THEN LET r == get_intersect_rel_matrix(sift(lig_fps))
            IN IF Raised(r)
               THEN /\ pc' = "raised"
                    /\ exc' = r.exc
                    /\ status' = Append(status, <<segment, 1>>)
                    /\ UNCHANGED <<irel_matrix, disk, loaded, stage>>
               ELSE /\ irel_matrix' = r.val
                    /\ disk' = DictPut(disk, "irel_matrix", r.val)
                    /\ stage' = stage + 1
                    /\ UNCHANGED <<pc, exc, status, loaded>>
       ELSE /\ irel_matrix' = DictGet(disk, "irel_matrix")
            /\ loaded' = loaded \cup {"irel_matrix"}
            /\ stage' = stage + 1
            /\ UNCHANGED <<pc, exc, status, disk>>
    /\ UNCHANGED <<lig_clust_method, lig_clust_dist, lig_fps, linkage_calls, cluster_ids,
                   cluster_id_dict, membership, cluster_ress, bs_ress_membership_dict>>
    /\ UNCHANGED <<override, override_variants>>
    /\ UNCHANGED <<loop_vars, cons_vars, retry_vars>>

\* the clustering: computed in every run, with the run's method and cut
\* height, from the matrix the run holds
ClusterStage ==
    /\ pc = "stages"
    /\ CurStage.file = "cluster"
    /\ LET ids == IF Len(lig_labs) = 1 THEN single_cluster_ids
                  ELSE cluster_tree(irel_matrix, Len(lig_labs), lig_clust_method,
                                    lig_clust_dist)
       IN /\ cluster_ids' = ids
          /\ cluster_id_dict' = zip_dict(lig_labs, ids, <<>>, 1)
    /\ linkage_calls' = IF Len(lig_labs) = 1 THEN linkage_calls ELSE linkage_calls + 1
    /\ stage' = stage + 1
    /\ UNCHANGED <<status, exc, lig_clust_method, lig_clust_dist, lig_fps,
                   lig_sifted_inters, lig_labs, irel_matrix, membership,
                   cluster_ress, bs_ress_membership_dict>>
    /\ UNCHANGED <<pc, override, override_variants, disk, loaded>>
    /\ UNCHANGED <<loop_vars, cons_vars, retry_vars>>

\* membership, cluster_ress and bs_ress_membership_dict: calculated from the
\* run's own values and dumped, or loaded from the file on disk
MembershipStage ==
    /\ pc = "stages"
    /\ CurStage.file \in {"membership", "cluster_ress", "bs_mm_dict"}
    /\ LET fresh == IF CurStage.file = "membership"
                    THEN get_cluster_membership(cluster_id_dict)
                    ELSE IF CurStage.file = "cluster_ress"
                    THEN get_all_cluster_ress(membership, lig_fps)
                    ELSE get_residue_bs_membership(cluster_ress)
           made == Regenerates(CurStage)
           value == IF made THEN fresh ELSE DictGet(disk, CurStage.file)
       IN /\ IF made
             THEN disk' = DictPut(disk, CurStage.file, fresh) /\ UNCHANGED loaded
             ELSE loaded' = loaded \cup {CurStage.file} /\ UNCHANGED disk
          /\ membership' = IF CurStage.file = "membership" THEN value ELSE membership
          /\ cluster_ress' = IF CurStage.file = "cluster_ress" THEN value ELSE cluster_ress
          /\ bs_ress_membership_dict' =
                IF CurStage.file = "bs_mm_dict" THEN value ELSE bs_ress_membership_dict
    /\ stage' = stage + 1
    /\ UNCHANGED <<status, exc, lig_clust_method, lig_clust_dist, lig_fps,
                   lig_sifted_inters, lig_labs, irel_matrix, linkage_calls, cluster_ids,
                   cluster_id_dict>>
    /\ UNCHANGED <<pc, override, override_variants>>
    /\ UNCHANGED <<loop_vars, cons_vars, retry_vars>>

\* the program is run again on the same segment: new options, the
\* configuration possibly edited, the directory as the last run left it
NewRun ==
    /\ pc \in {"run_end", "raised"}
    /\ pc' = "run_start"
    /\ override' \in BOOLEAN
    /\ override_variants' \in BOOLEAN
    /\ lig_clust_dist' \in Heights
    /\ loaded' = {}
    /\ stage' = 0
    /\ status' = <<>>
    /\ exc' = "none"
    /\ lig_sifted_inters' = <<>>
    /\ lig_labs' = <<>>
    /\ irel_matrix' = <<>>
    /\ cluster_ids' = <<>>
    /\ cluster_id_dict' = <<>>
    /\ membership' = <<>>
    /\ cluster_ress' = <<>>
    /\ bs_ress_membership_dict' = <<>>
    /\ linkage_calls' = 0
    /\ UNCHANGED <<lig_clust_method, lig_fps, disk>>
    /\ UNCHANGED <<loop_vars, cons_vars, retry_vars>>

NextRuns ==
    \/ RunStart
    \/ PlainStage
    \/ StageRaises
    \/ MatrixStage
    \/ ClusterStage
    \/ MembershipStage
    \/ NewRun

SpecRuns == InitRuns /\ [][NextRuns]_vars

\* ------------------------------------------------------------------ properties
\* the positions after the similarity matrix has been built
MatrixBuilt == pc \in {"cluster", "membership", "cluster_ress", "ress_membership", "indexed"}
\* the positions after the cluster assignment has been made
Clustered == pc \in {"membership", "cluster_ress", "ress_membership", "indexed"}

N_ligs == Len(lig_sifted_inters)
\* the residue set of the fingerprint with 0-based index i
ResSet(i) == Range(lig_sifted_inters[i + 1])
NoDup(l) == Cardinality(Range(l)) = Len(l)

\* |A \cap B| / min(|A|, |B|) for non-empty sets A and B
RelInter(A, B) ==
    Rat(Cardinality(A \cap B),
        IF Cardinality(A) <= Cardinality(B) THEN Cardinality(A) ELSE Cardinality(B))

\* C1: for non-empty duplicate-free lists intersection_rel returns
\* |A n B| / min(|A|, |B|), and every entry [i][j] of the matrix built by
\* get_intersect_rel_matrix is that value for fingerprints i and j.
C1_RelativeIntersection ==
    /\ \A i, j \in 1..Len(lig_fps) :
          LET a == lig_fps[i][2]
              b == lig_fps[j][2]
          IN (a # <<>> /\ b # <<>> /\ NoDup(a) /\ NoDup(b)) =>
                intersection_rel(a, b) =
                    [exc |-> "none", val |-> RelInter(Range(a), Range(b))]
    /\ MatrixBuilt =>
          \A i, j \in 0..(N_ligs - 1) :
              irel_matrix[i][j] = RelInter(ResSet(i), ResSet(j))

\* C1 witness: a matrix with an entry 1/2 for two fingerprints of two residues
\* each that share one (their Jaccard ratio is 1/3)
C1_Witness ==
    /\ MatrixBuilt
    /\ \E i, j \in 0..(N_ligs - 1) :
          /\ Cardinality(ResSet(i)) = 2 /\ Cardinality(ResSet(j)) = 2
          /\ Cardinality(ResSet(i) \cap ResSet(j)) = 1
          /\ irel_matrix[i][j] = <<1, 2>>

\* C2: a fingerprint contained in another one scores 1.0 against it whatever
\* the number of residues it lacks, and the diagonal of the matrix is 1.0.
C2_ContainmentScoresOne ==
    MatrixBuilt =>
        /\ \A i, j \in 0..(N_ligs - 1) :
              ResSet(i) \subseteq ResSet(j) => irel_matrix[i][j] = RatOne
        /\ \A i \in 0..(N_ligs - 1) : irel_matrix[i][i] = RatOne

\* C2 witness: a fingerprint strictly contained in a larger one, scored 1.0
C2_Witness ==
    /\ MatrixBuilt
    /\ \E i, j \in 0..(N_ligs - 1) :
          /\ ResSet(i) \subseteq ResSet(j)
          /\ ResSet(i) # ResSet(j)
          /\ irel_matrix[i][j] = RatOne

\* C3: every similarity lies in [0, 1] and is symmetric; the matrix has an
\* entry for every ordered pair of indices, is symmetric, and its entry is
\* 0.0 exactly for the disjoint pairs.
C3_SymmetricBoundedTotal ==
    MatrixBuilt =>
        /\ DOMAIN irel_matrix = 0..(N_ligs - 1)
        /\ \A i \in 0..(N_ligs - 1) : DOMAIN irel_matrix[i] = 0..(N_ligs - 1)
        /\ \A i, j \in 0..(N_ligs - 1) :
              /\ irel_matrix[i][j] = irel_matrix[j][i]
              /\ RatLeq(RatZero, irel_matrix[i][j])
              /\ RatLeq(irel_matrix[i][j], RatOne)
              /\ (irel_matrix[i][j] = RatZero) <=> (ResSet(i) \cap ResSet(j) = {})
              /\ intersection_rel(lig_sifted_inters[i + 1], lig_sifted_inters[j + 1])
                    = intersection_rel(lig_sifted_inters[j + 1], lig_sifted_inters[i + 1])

\* C3 witness: a matrix over three fingerprints with a disjoint pair scored
\* 0.0 and a pair scored strictly between 0 and 1
C3_Witness ==
    /\ MatrixBuilt
    /\ N_ligs = 3
    /\ \E i, j \in 0..(N_ligs - 1) : i > j /\ irel_matrix[i][j] = RatZero
    /\ \E i, j \in 0..(N_ligs - 1) : i > j /\ irel_matrix[i][j] = <<1, 2>>

\* C4: building the similarity matrix of a list that holds an empty
\* fingerprint, at any position and for any N >= 1, raises (the division by
\* I_max = 0 in intersection_rel) and no matrix is returned.
C4_EmptyFingerprintRaises ==
    /\ (\E i \in 1..N_ligs : lig_sifted_inters[i] = <<>>) =>
          Raised(get_intersect_rel_matrix(lig_sifted_inters))
    /\ (pc # "irel" /\ \E i \in 1..N_ligs : lig_sifted_inters[i] = <<>>) =>
          /\ pc = "raised"
          /\ exc = "ZeroDivisionError"
          /\ irel_matrix = <<>>
    /\ pc = "raised" => \E i \in 1..N_ligs : lig_sifted_inters[i] = <<>>

\* C4 witness: the call has raised on a single empty fingerprint (N = 1)
C4_Witness ==
    /\ pc = "raised"
    /\ N_ligs = 1
    /\ lig_sifted_inters[1] = <<>>

\* C5: with exactly one ligand the cluster assignment is {that ligand: 0}
\* and neither linkage nor cut_tree has been called.
C5_SingleLigandClusterZero ==
    /\ (Clustered /\ Len(lig_labs) = 1) =>
          /\ cluster_id_dict = <<<<lig_labs[1], 0>>>>
          /\ linkage_calls = 0
    /\ (Clustered /\ Len(lig_labs) # 1) => linkage_calls = 1

\* C5 witness: the assignment has been made for a single ligand
C5_Witness ==
    /\ Clustered
    /\ Len(lig_labs) = 1
    /\ Len(cluster_id_dict) = 1

SameFp(i, j) == ResSet(i) = ResSet(j)
\* fingerprint i shares no residue with any other fingerprint
Isolated(i) == \A j \in 0..(N_ligs - 1) : j # i => ResSet(i) \cap ResSet(j) = {}
\* no fingerprint is a proper subset or a proper superset of fingerprint i
NoNested(i) ==
    \A k \in 0..(N_ligs - 1) :
        (ResSet(k) \subseteq ResSet(i) \/ ResSet(i) \subseteq ResSet(k)) => SameFp(i, k)
AverageAtHalf == lig_clust_method = "average" /\ lig_clust_dist = <<1, 2>>

\* C6 as stated: with average linkage and cut height 0.5 any two fingerprints
\* with identical residue sets receive the same cluster id, and a fingerprint
\* that shares no residue with any other receives an id of its own.
C6_Original ==
    (Clustered /\ AverageAtHalf /\ N_ligs > 1) =>
        /\ \A i, j \in 0..(N_ligs - 1) :
              SameFp(i, j) => cluster_ids[i + 1] = cluster_ids[j + 1]
        /\ \A i, j \in 0..(N_ligs - 1) :
              (Isolated(i) /\ j # i) => cluster_ids[i + 1] # cluster_ids[j + 1]

\* C6 amended: with average linkage and cut height 0.5, two fingerprints with
\* identical residue sets receive the same cluster id when no other
\* fingerprint is a proper subset or a proper superset of them, and a
\* fingerprint that shares no residue with any other receives an id of its own.
C6_IdenticalTogetherUnlessNested ==
    (Clustered /\ AverageAtHalf /\ N_ligs > 1) =>
        /\ \A i, j \in 0..(N_ligs - 1) :
              (SameFp(i, j) /\ NoNested(i)) => cluster_ids[i + 1] = cluster_ids[j + 1]
        /\ \A i, j \in 0..(N_ligs - 1) :
              (Isolated(i) /\ j # i) => cluster_ids[i + 1] # cluster_ids[j + 1]

\* C6 witness: two identical fingerprints share cluster 0 and a third one,
\* disjoint from them, is alone in cluster 1
C6_Witness ==
    /\ Clustered
    /\ AverageAtHalf
    /\ N_ligs = 3
    /\ SameFp(0, 1) /\ NoNested(0)
    /\ Isolated(2)
    /\ cluster_ids = <<0, 0, 1>>

ClusterIdSet == {cluster_id_dict[i][2] : i \in 1..Len(cluster_id_dict)}

\* C7: every ligand id is mapped to a cluster id >= 0 and the ids in use are
\* exactly 0..k-1, k the number of clusters.
C7_DenseClusterIds ==
    Clustered =>
        /\ Range(DictKeys(cluster_id_dict)) = Range(lig_labs)
        /\ Len(cluster_id_dict) = Len(lig_labs)
        /\ \A c \in ClusterIdSet : c >= 0
        /\ ClusterIdSet = 0..(Cardinality(ClusterIdSet) - 1)

\* C7 witness: three ligands, the first two merged, the third renumbered to 1
C7_Witness ==
    /\ Clustered
    /\ Len(lig_labs) = 3
    /\ cluster_ids = <<0, 0, 1>>
    /\ linkage_calls = 1

MembershipDone == pc \in {"cluster_ress", "ress_membership", "indexed"}
ClusterRessDone == pc \in {"ress_membership", "indexed"}

\* the number of positions of list l that hold x
Occurrences(l, x) == Cardinality({i \in 1..Len(l) : l[i] = x})

\* C8: ligand l is listed under cluster c iff the assignment maps l to c;
\* every ligand is in exactly one member list, exactly once, no listed cluster
\* is empty, and the member lists cover the ligand ids.
C8_MembershipIsInverse ==
    MembershipDone =>
        /\ NoDup(DictKeys(membership))
        /\ \A i \in 1..Len(membership) : membership[i][2] # <<>>
        /\ \A l \in Range(lig_labs) :
              \A c \in ClusterIdSet \cup Range(DictKeys(membership)) :
                  (DictHas(membership, c) /\ l \in Range(DictGet(membership, c)))
                      <=> DictGet(cluster_id_dict, l) = c
        /\ \A l \in Range(lig_labs) :
              Cardinality({i \in 1..Len(membership) :
                              l \in Range(membership[i][2])}) = 1
        /\ \A i \in 1..Len(membership) :
              \A l \in Range(membership[i][2]) :
                  l \in Range(lig_labs) /\ Occurrences(membership[i][2], l) = 1

\* C8 witness: two clusters, one of them with two members
C8_Witness ==
    /\ MembershipDone
    /\ Len(membership) = 2
    /\ \E i \in 1..Len(membership) : Len(membership[i][2]) = 2

\* C9: the residue list of every cluster is the union of the fingerprints of
\* its members, without duplicates, and every cluster has one.
C9_ClusterResiduesAreUnion ==
    ClusterRessDone =>
        /\ DictKeys(cluster_ress) = DictKeys(membership)
        /\ \A i \in 1..Len(cluster_ress) :
              /\ NoDup(cluster_ress[i][2])
              /\ \A r \in Residues :
                    r \in Range(cluster_ress[i][2]) <=>
                        \E l \in Range(DictGet(membership, cluster_ress[i][1])) :
                            r \in Range(DictGet(lig_fps, l))

\* C9 witness: a cluster of two members that share a residue, one of which
\* brings a residue of its own; the cluster has those two residues
C9_Witness ==
    /\ ClusterRessDone
    /\ \E i \in 1..Len(membership) :
          /\ Len(membership[i][2]) = 2
          /\ LET a == Range(DictGet(lig_fps, membership[i][2][1]))
                 b == Range(DictGet(lig_fps, membership[i][2][2]))
             IN a \cap b # {} /\ a # b
          /\ Len(DictGet(cluster_ress, membership[i][1])) = 2

\* C10: a residue is a key of the residue map iff some binding site holds it,
\* its list names exactly the sites that hold it, each once, and is never empty.
C10_ResidueMembership ==
    pc = "indexed" =>
        /\ NoDup(DictKeys(bs_ress_membership_dict))
        /\ \A r \in Residues :
              DictHas(bs_ress_membership_dict, r) <=>
                  \E i \in 1..Len(cluster_ress) : r \in Range(cluster_ress[i][2])
        /\ \A i \in 1..Len(bs_ress_membership_dict) :
              LET r == bs_ress_membership_dict[i][1]
                  sites == bs_ress_membership_dict[i][2]
              IN /\ sites # <<>>
                 /\ NoDup(sites)
                 /\ Range(sites) =
                      {cluster_ress[k][1] : k \in
                          {q \in 1..Len(cluster_ress) : r \in Range(cluster_ress[q][2])}}

\* C10 witness: a residue recorded under two binding sites next to a residue
\* recorded under one
C10_Witness ==
    /\ pc = "indexed"
    /\ \E i \in 1..Len(bs_ress_membership_dict) :
          Len(bs_ress_membership_dict[i][2]) = 2
    /\ \E i \in 1..Len(bs_ress_membership_dict) :
          Len(bs_ress_membership_dict[i][2]) = 1

\* ------------------------------------------------------------------ conservation properties
ColumnDone == pc \in {"scored", "raised"} /\ col # <<>>

AllGaps(column) == \A i \in 1..Len(column) : column[i] = "-"

\* the symbols of the 21-symbol alphabet in either case
Recognized(a) ==
    \E k \in 1..Len(aas_1l) :
        \/ a = aas_1l[k]
        \/ \E i \in 1..Len(upper_case) : upper_case[i] = aas_1l[k] /\ lower_case[i] = a

\* how often the alphabet symbol at position k stands in the column, in
\* either case
SymbolCount(column, k) ==
    Cardinality({i \in 1..Len(column) :
        \/ column[i] = aas_1l[k]
        \/ \E j \in 1..Len(upper_case) :
              upper_case[j] = aas_1l[k] /\ lower_case[j] = column[i]})

Unrecognized(column) == Cardinality({i \in 1..Len(column) : ~Recognized(column[i])})

RECURSIVE FreqSum(_, _)
FreqSum(fs, i) ==
    IF i > Len(fs) THEN RatZero
    ELSE LET r == FreqSum(fs, i + 1)
         IN Rat(fs[i][2][1] * r[2] + r[1] * fs[i][2][2], fs[i][2][2] * r[2])

\* C11 (as claimed): for every column that is not all gaps, get_freqs returns
\* for each of the 21 symbols its count divided by the column length minus
\* the number of unrecognized symbols, and the 21 frequencies sum to 1,
\* whatever the number of unrecognized symbols.
C11_FrequenciesOverRecognized ==
    (ColumnDone /\ ~AllGaps(col)) =>
        /\ pc = "scored"
        /\ \A k \in 1..Len(aas_1l) :
              /\ freqs[k][1] = aas_1l[k]
              /\ freqs[k][2][1] * (Len(col) - Unrecognized(col))
                    = SymbolCount(col, k) * freqs[k][2][2]
        /\ FreqSum(freqs, 1) = RatOne

\* C12: a column of gaps only gives the distribution with gap frequency 1
\* and every other frequency 0, the Shenkin score 6.0 and the occupancy 0,
\* with no exception.
C12_AllGapColumn ==
    (ColumnDone /\ AllGaps(col)) =>
        /\ pc = "scored"
        /\ \A k \in 1..Len(aas_1l) :
              freqs[k] = <<aas_1l[k], IF aas_1l[k] = "-" THEN <<1, 1>> ELSE <<0, 1>>>>
        /\ shenkin = 600
        /\ col_stats.occ = 0
        /\ col_stats.occ_pct = 0

C12_Witness == pc = "scored" /\ Len(col) >= 2 /\ AllGaps(col)

\* one canonical residue, in upper or lower case, at every position
SingleResidue(column) ==
    \E k \in 1..(Len(aas_1l) - 1) : SymbolCount(column, k) = Len(column)

\* C13: a column that repeats one canonical residue in every sequence, in
\* upper or lower case, has entropy 0 and the Shenkin score 6.0, and no
\* column scores less than 6.0.
C13_InvariantColumnScoresSix ==
    /\ (ColumnDone /\ SingleResidue(col)) =>
          /\ pc = "scored"
          /\ entropy_is_zero(get_entropy(freqs))
          /\ shenkin = 600
    /\ pc = "scored" => shenkin >= 600

C13_Witness ==
    /\ pc = "scored"
    /\ SingleResidue(col)
    /\ Len(col) >= 2
    /\ \E i \in 1..Len(col) : col[i] = "a"

FormatDone == pc \in {"formatted", "raised"} /\ shenkin_df # <<>>

\* the rows of the table whose column is a scored one
ScoredRows == {i \in 1..Len(shenkin_df) : shenkin_df[i].col \in Range(prot_cols)}

\* C14 (as claimed): for every non-empty set of scored columns every
\* rel_norm_shenkin is a number in [0, 100], 0 for the columns with the
\* minimum Shenkin score and 100 for those with the maximum.
C14_RelNormInRange ==
    (FormatDone /\ ScoredRows # {}) =>
        /\ pc = "formatted"
        /\ Len(shenkin_filt) = Cardinality(ScoredRows)
        /\ \A i \in 1..Len(shenkin_filt) :
              LET row == shenkin_filt[i]
              IN /\ row.rel_norm_shenkin.k = "num"
                 /\ row.rel_norm_shenkin.v >= 0
                 /\ row.rel_norm_shenkin.v <= 10000
                 /\ (\A j \in ScoredRows : row.shenkin <= shenkin_df[j].shenkin)
                       => row.rel_norm_shenkin.v = 0
                 /\ (\A j \in ScoredRows : row.shenkin >= shenkin_df[j].shenkin)
                       => row.rel_norm_shenkin.v = 10000

\* ------------------------------------------------------------------ enrichment properties
ORDone == pc = "or_done"

RECURSIVE SumSeq(_)
SumSeq(l) == IF l = <<>> THEN 0 ELSE Head(l) + SumSeq(Tail(l))

PooledOcc == SumSeq([i \in 1..Len(missense_df) |-> missense_df[i].occ])
PooledVars == SumSeq([i \in 1..Len(missense_df) |-> missense_df[i].variants])

\* C15: for column i the cells variants_rest and occupancy_rest are the
\* totals over every column of the table, column i and the columns without
\* occupancy included, minus column i's own value, and the table tested is
\* [[variants_i, variants_rest], [occupancy_i, occupancy_rest]].
C15_RestIsTotalMinusColumn ==
    ORDone =>
        \A i \in 1..Len(missense_df) :
            LET row == missense_df[i]
            IN /\ row.rest_vars = PooledVars - row.variants
               /\ row.rest_occ = PooledOcc - row.occ
               /\ (row.occ > 0 /\ row.variants > 0) =>
                     row.table = <<<<2 * row.variants, 2 * row.rest_vars>>,
                                   <<2 * row.occ, 2 * row.rest_occ>>>>

\* three columns, one of them without occupancy but with variants
C15_Witness ==
    /\ ORDone
    /\ Len(missense_df) >= 3
    /\ \E i, j \in 1..Len(missense_df) :
          /\ missense_df[i].occ = 0
          /\ missense_df[i].variants > 0
          /\ missense_df[j].occ > 0
          /\ missense_df[j].variants > 0
          /\ missense_df[j].rest_vars > missense_df[i].variants
          /\ missense_df[j].table # <<>>

IsNaN(x) == x.k = "nan"
IsFinite(x) == x.k = "num"

\* C16: a column with occupancy 0 gets not-a-number as odds ratio, p-value
\* and interval statistic, get_OR does not raise, and every column with
\* occupancy still gets its table tested and its statistics set.
C16_ZeroOccupancyIsNaN ==
    /\ pc # "raised"
    /\ ORDone =>
          \A i \in 1..Len(missense_df) :
              LET row == missense_df[i]
              IN IF row.occ = 0
                 THEN IsNaN(row.oddsratio) /\ IsNaN(row.pvalue) /\ IsNaN(row.se_OR)
                 ELSE /\ row.table # <<>>
                      /\ ~IsNaN(row.pvalue)
                      /\ ~IsNaN(row.se_OR)

C16_Witness ==
    /\ ORDone
    /\ \E i, j \in 1..Len(missense_df) :
          /\ missense_df[i].occ = 0
          /\ missense_df[i].variants > 0
          /\ IsNaN(missense_df[i].oddsratio)
          /\ missense_df[j].occ > 0
          /\ IsFinite(missense_df[j].oddsratio)
          /\ missense_df[j].oddsratio.v > 0

\* C17 (as claimed): a column with occupancy and no variant has 0.5 added to
\* the four cells of its table and gets a finite odds ratio, whatever the
\* pooled totals.
C17_ZeroVariantsFiniteOR ==
    ORDone =>
        \A i \in 1..Len(missense_df) :
            LET row == missense_df[i]
            IN (row.occ > 0 /\ row.variants = 0) =>
                  /\ row.table = <<<<1, 2 * row.rest_vars + 1>>,
                                   <<2 * row.occ + 1, 2 * row.rest_occ + 1>>>>
                  /\ IsFinite(row.oddsratio)

\* ------------------------------------------------------------------ classification properties
Classified == pc = "classified"

t_low == cons_ts[1]
t_high == cons_ts[2]

\* the odds ratio of a row against MES_t
Depleted(row) == row.oddsratio.k = "num" /\ row.oddsratio.v < MES_t
Enriched(row) ==
    \/ row.oddsratio.k = "inf"
    \/ row.oddsratio.k = "num" /\ row.oddsratio.v > MES_t
AtThreshold(row) == row.oddsratio.k = "num" /\ row.oddsratio.v = MES_t

\* C18 (as claimed): the label is CMD for score <= t_low and OR < MES_t, CME
\* for score <= t_low and OR > MES_t, UMD for score >= t_high and
\* OR < MES_t, UME for score >= t_high and OR > MES_t and "None" otherwise;
\* a score strictly between the thresholds and an OR equal to MES_t give
\* "None".
C18_Original ==
    Classified =>
        \A i \in 1..Len(missense_df) :
            LET row == missense_df[i]
                score == row.abs_norm_shenkin
            IN /\ (score <= t_low /\ Depleted(row)) => row.miss_class = "CMD"
               /\ (score <= t_low /\ Enriched(row)) => row.miss_class = "CME"
               /\ (score >= t_high /\ Depleted(row)) => row.miss_class = "UMD"
               /\ (score >= t_high /\ Enriched(row)) => row.miss_class = "UME"
               /\ (score > t_low /\ score < t_high) => row.miss_class = "None"
               /\ AtThreshold(row) => row.miss_class = "None"
               /\ (~(score <= t_low) /\ ~(score >= t_high)) => row.miss_class = "None"
               /\ (~Depleted(row) /\ ~Enriched(row)) => row.miss_class = "None"

\* C18 (amended): as claimed, the labels UMD and UME being given to a score
\* >= t_high only when the score is also > t_low; the label is a function
\* of the score, the odds ratio and the thresholds.
C18_LabelByThresholds ==
    Classified =>
        \A i \in 1..Len(missense_df) :
            LET row == missense_df[i]
                score == row.abs_norm_shenkin
            IN /\ (score <= t_low /\ Depleted(row)) => row.miss_class = "CMD"
               /\ (score <= t_low /\ Enriched(row)) => row.miss_class = "CME"
               /\ (score >= t_high /\ score > t_low /\ Depleted(row))
                     => row.miss_class = "UMD"
               /\ (score >= t_high /\ score > t_low /\ Enriched(row))
                     => row.miss_class = "UME"
               /\ (score > t_low /\ score < t_high) => row.miss_class = "None"
               /\ AtThreshold(row) => row.miss_class = "None"
               /\ (~(score <= t_low) /\ ~(score >= t_high)) => row.miss_class = "None"
               /\ (~Depleted(row) /\ ~Enriched(row)) => row.miss_class = "None"
               /\ row.miss_class \in {"CMD", "CME", "UMD", "UME", "None"}

\* a score on the lower threshold with a depleted odds ratio, labelled CMD
C18_Witness ==
    /\ Classified
    /\ t_low < t_high
    /\ \E i \in 1..Len(missense_df) :
          /\ missense_df[i].abs_norm_shenkin = t_low
          /\ Depleted(missense_df[i])
          /\ missense_df[i].miss_class = "CMD"

\* the labels whose condition holds for a row
LabelsHolding(row) ==
    LET score == row.abs_norm_shenkin
        four == {l \in {"CMD", "CME", "UMD", "UME"} :
                    \/ l = "CMD" /\ score <= t_low /\ Depleted(row)
                    \/ l = "CME" /\ score <= t_low /\ Enriched(row)
                    \/ l = "UMD" /\ score >= t_high /\ Depleted(row)
                    \/ l = "UME" /\ score >= t_high /\ Enriched(row)}
    IN IF four = {} THEN {"None"} ELSE four

\* C19 (as claimed): for thresholds with t_low <= t_high exactly one of the
\* five label conditions holds, and it is the label add_miss_class assigns,
\* whatever the order of the tests.
C19_Original ==
    (Classified /\ t_low <= t_high) =>
        \A i \in 1..Len(missense_df) :
            LabelsHolding(missense_df[i]) = {missense_df[i].miss_class}

\* C19 (amended): for thresholds with t_low < t_high exactly one of the five
\* label conditions holds, and it is the label add_miss_class assigns.
C19_ExclusiveLabels ==
    (Classified /\ t_low < t_high) =>
        \A i \in 1..Len(missense_df) :
            LabelsHolding(missense_df[i]) = {missense_df[i].miss_class}

\* an unconserved, enriched column between distinct thresholds
C19_Witness ==
    /\ Classified
    /\ t_low < t_high
    /\ \E i \in 1..Len(missense_df) :
          /\ missense_df[i].abs_norm_shenkin = t_high
          /\ missense_df[i].oddsratio = Inf
          /\ missense_df[i].miss_class = "UME"

\* ------------------------------------------------------------------ segment loop properties
\* the program has stopped: the exception left the loop, or "THE END"
Halted == pc \in {"raised", "the_end"}

\* the segments whose pass of the loop has begun
Visited == {segments[i] : i \in 1..segment_index}

Failed(seg) == <<seg, 1>> \in Range(status)

\* C20 (as claimed): after an exception in one segment's processing the
\* remaining segments of the accession are still visited: when the program
\* stops, every segment that follows a failed one has been visited.
C20_FailureHaltsOnlySegment ==
    Halted =>
        \A i, j \in 1..Len(segments) :
            (i < j /\ Failed(segments[i])) => segments[j] \in Visited

\* ------------------------------------------------------------------ purity
\* C21 (as claimed): the core operations leave the tables passed to them as
\* they were: the table given to add_miss_class is the same after the call
\* as before it.
C21_ArgumentsUnmodified == [][AddMissClass => missense_df' = missense_df]_vars

\* ------------------------------------------------------------------ scored columns out of range
\* the scored-column indexes that are not a column of the alignment
OutOfRange == {c \in Range(prot_cols) : c < 1 \/ c > Len(shenkin_df)}

\* C22 (as claimed): a scored-column index outside the alignment's column
\* range makes format_shenkin fail with an error (an InputError, whatever
\* exception stands for it); it is not dropped from the conservation
\* records.
C22_OutOfRangeIsInputError ==
    (FormatDone /\ OutOfRange # {}) => pc = "raised"

\* ------------------------------------------------------------------ enrichment of occupied columns
\* C24 (as claimed): every column with occupancy > 0 gets a finite odds
\* ratio and a finite interval half-width from get_OR, which does not
\* raise, whatever the other cells of its table are. The columns without
\* variants are left to C17: the property is stated here for the columns
\* that have occupancy and variants, whose table gets no correction.
C24_OccupiedColumnFinite ==
    /\ pc # "raised"
    /\ ORDone =>
          \A i \in 1..Len(missense_df) :
              (missense_df[i].occ > 0 /\ missense_df[i].variants > 0) =>
                  /\ IsFinite(missense_df[i].oddsratio)
                  /\ IsFinite(missense_df[i].se_OR)

\* ------------------------------------------------------------------ classification of not-a-number
\* C25: a column whose odds ratio is not-a-number passes through
\* add_miss_class without an exception and is labelled "None" with the
\* "None" colour, whatever its conservation score, scores <= t_low and
\* scores >= t_high included.
C25_NaNIsNone ==
    /\ pc # "raised"
    /\ Classified =>
          \A i \in 1..Len(missense_df) :
              IsNaN(missense_df[i].oddsratio) =>
                  /\ missense_df[i].miss_class = "None"
                  /\ missense_df[i].miss_color = consvar_class_colours[3]

\* a not-a-number column in the conserved band, below distinct thresholds
C25_Witness ==
    /\ Classified
    /\ t_low < t_high
    /\ \E i \in 1..Len(missense_df) :
          /\ IsNaN(missense_df[i].oddsratio)
          /\ missense_df[i].abs_norm_shenkin < t_low
          /\ missense_df[i].miss_class = "None"

\* a step that ends the loop body of a segment: its last status line is the
\* 0 printed at the end of the body
CompletesSegment ==
    /\ pc = "indexed"
    /\ Len(status') > Len(status)
    /\ status'[Len(status')] = <<segment, 0>>

\* a step of the loop: the segment changes only from a skipped one to the
\* next of the list, the end of the body ends the program, and no step
\* follows the end
LoopStep ==
    /\ (segment' # segment) =>
          /\ pc = "skipped"
          /\ segment_index < Len(segments)
          /\ segment' = segments[segment_index + 1]
          /\ segment' > segment
          /\ pc' = "segment_start"
    /\ CompletesSegment => (pc' = "the_end")
    /\ pc # "the_end"

\* C27: the loop visits the segments in ascending order, a segment that is
\* skipped lets the loop go on to the next one, and the first segment whose
\* processing reaches the end of the loop body is the last one visited:
\* nothing happens after it, so a run fully processes at most one segment.
C27_StopsAfterFirstProcessed ==
    /\ [](pc = "skipped" => ENABLED NextSegment)
    /\ [][LoopStep]_vars

\* the first segment was skipped, the second processed to its end, and the
\* third was never visited
C27_Witness ==
    /\ pc = "the_end"
    /\ Len(segments) = 3
    /\ segment = segments[2]
    /\ cluster_ids # <<>>
    /\ \E code \in EarlySkipCodes \ {0} : status[1] = <<segments[1], code>>
    /\ status[Len(status)] = <<segment, 0>>

\* the number of status lines printed for a segment
StatusLines(seg) == Cardinality({i \in 1..Len(status) : status[i][1] = seg})

\* the loop has moved on from the segment, or the program has stopped in it
Finished(seg) ==
    /\ seg \in Visited
    /\ seg # segment \/ Halted \/ pc = "skipped"

\* C28 (as claimed): every segment the loop visits has exactly one status
\* line when the loop moves on or the program stops: no path through the
\* body ends without one, and none prints two.
C28_ExactlyOneStatusLine ==
    \A seg \in Range(segments) : Finished(seg) => StatusLines(seg) = 1

\* ------------------------------------------------------------------ cut height
\* the partition q puts together whatever the partition p puts together
Coarsens(p, q) ==
    \A i, j \in 1..Len(p) : p[i] = p[j] => q[i] = q[j]

\* the cluster ids of the fingerprints of the segment, cut at height h
CutAt(h) == cluster_tree(irel_matrix, Len(lig_labs), lig_clust_method, h)

\* C29: for a fixed list of fingerprints and a fixed linkage criterion
\* (average, complete or single), raising the cut height only coarsens the
\* partition: fingerprints that share a cluster at lig_clust_dist share one
\* at every height above it, and the number of clusters does not grow.
C29_CutHeightMonotone ==
    (pc = "membership" /\ Len(lig_labs) > 1) =>
        \A h2 \in Heights :
            RatLess(lig_clust_dist, h2) =>
                /\ Coarsens(cluster_ids, CutAt(h2))
                /\ Cardinality(Range(CutAt(h2))) <= Cardinality(Range(cluster_ids))

\* single linkage: three clusters at the low cut, one at the top
C29_Witness ==
    /\ pc = "membership"
    /\ Len(lig_labs) = 3
    /\ lig_clust_method = "single"
    /\ RatLess(lig_clust_dist, RatOne)
    /\ Cardinality(Range(cluster_ids)) = 3
    /\ Cardinality(Range(CutAt(RatOne))) = 1

\* ------------------------------------------------------------------ retry loop properties
\* the calls of get_bound_mol_inters made for an id
Attempts(id) == Cardinality({i \in 1..Len(attempt_log) : attempt_log[i] = id})

\* the position of an id in bm_ids
PosOf(id) == CHOOSE i \in 1..Len(bm_ids) : bm_ids[i] = id

\* at most max_retry calls for an id, the calls in the order of bm_ids, and
\* the work list a tail of bm_ids
RetryBounded ==
    /\ \A id \in Range(bm_ids) : Attempts(id) <= max_retry
    /\ \A i, j \in 1..Len(attempt_log) :
          i < j => PosOf(attempt_log[i]) <= PosOf(attempt_log[j])
    /\ \E k \in 0..Len(bm_ids) : bm_ids_copy = SubSeq(bm_ids, k + 1, Len(bm_ids))

C23_OverrideRegeneratesAll == override => loaded = {}

\* a run has written its results table
TableWritten == pc = "run_end" /\ stage = Len(Stages)

\* C26: the membership, the site residue sets and the residue-to-site map a
\* run puts in its results table are those derived from the cluster
\* assignment that the same run computed.
C26_TableFromOwnClustering ==
    TableWritten =>
        /\ membership = get_cluster_membership(cluster_id_dict)
        /\ cluster_ress = get_all_cluster_ress(get_cluster_membership(cluster_id_dict), lig_fps)
        /\ bs_ress_membership_dict =
              get_residue_bs_membership(
                  get_all_cluster_ress(get_cluster_membership(cluster_id_dict), lig_fps))

====
